---- MODULE Spec2Model ----
\* Rule-based BigQuery anti-pattern detector and optimizer, with the LLM
\* delegate in front of it (app.py, analizer/, llm_integration.py).
\*
\* A query text is a sequence of one-character strings.  Regular expressions
\* are matched by a small matcher working on sets of text positions, Python's
\* str methods (upper, in, count, replace) are recursive operators over the
\* characters.
EXTENDS Integers, Sequences, FiniteSets, TLC

VARIABLES query_text, llm_analyzer, pc, analysis_path, llm_outcome, analysis, optimized_query,
          max_retries, attempt, api_pc, posts, sleeps, response,
          threads,
          store, session, request, rendered, awaiting,
          fallback_to_rule_based

\* the state of one _make_api_request call (llm/analyzer.py)
api_vars == <<max_retries, attempt, api_pc, posts, sleeps, response>>

vars == <<query_text, llm_analyzer, pc, analysis_path, llm_outcome, analysis, optimized_query,
          max_retries, attempt, api_pc, posts, sleeps, response, threads,
          store, session, request, rendered, awaiting, fallback_to_rule_based>>

\* the query store and the web front end of app.py: MOCK_QUERY_DATA, the
\* session of the browser, the request handled last and the page rendered for
\* it; awaiting records the pair stored by the latest analyze request that no
\* GET /optimize without query_id has followed yet
web_vars == <<store, session, request, rendered, awaiting>>

\* ---------------------------------------------------------------- bounds
\* Number of fragments concatenated into a query text of the analysis runs.
MaxFrags == 2
\* Number of fragments concatenated into a query text of the optimizer runs.
MaxOptFrags == 2
\* Number of fragments concatenated into a query text handed to
\* BigQueryAnalysisModel.
MaxMcpFrags == 1

\* ------------------------------------------------------------ characters
LowerCase == <<"a","b","c","d","e","f","g","h","i","j","k","l","m","n","o","p","q","r","s","t","u","v","w","x","y","z">>
UpperCase == <<"A","B","C","D","E","F","G","H","I","J","K","L","M","N","O","P","Q","R","S","T","U","V","W","X","Y","Z">>
Letters == {LowerCase[i] : i \in 1..26} \cup {UpperCase[i] : i \in 1..26}
Digits == {"0","1","2","3","4","5","6","7","8","9"}

\* str.upper() / re.IGNORECASE folding of one character
Upper(c) == IF \E i \in 1..26 : LowerCase[i] = c
            THEN UpperCase[CHOOSE i \in 1..26 : LowerCase[i] = c]
            ELSE c

\* str.upper()
UpperStr(s) == [i \in 1..Len(s) |-> Upper(s[i])]

\* regex character classes: \s, \d, \w and . (no DOTALL: . excludes newline)
InClass(c, cls) ==
    CASE cls = "s" -> c \in {" ", "\n", "\t"}
      [] cls = "d" -> c \in Digits
      [] cls = "w" -> c \in Letters \cup Digits \cup {"_"}
      [] cls = "dot" -> c # "\n"

\* --------------------------------------------------------- regex matcher
\* A pattern is a sequence of items; a position p in 0..Len(text) means that
\* p characters have been consumed.
Lit(s) == [k |-> "lit", s |-> s, c |-> ""]
Alt(ss) == [k |-> "alt", s |-> ss, c |-> ""]
Plus(cls) == [k |-> "plus", s |-> <<>>, c |-> cls]
Star(cls) == [k |-> "star", s |-> <<>>, c |-> cls]
WordB == [k |-> "b", s |-> <<>>, c |-> ""]

\* the literal s (case-insensitive) occupies text[p+1 .. p+Len(s)]
LitAt(text, s, p) ==
    /\ p + Len(s) <= Len(text)
    /\ \A j \in 1..Len(s) : Upper(text[p + j]) = Upper(s[j])

LitEnds(text, s, P) == {p + Len(s) : p \in {q \in P : LitAt(text, s, q)}}

RECURSIVE AltEnds(_, _, _)
AltEnds(text, ss, P) ==
    IF ss = <<>> THEN {}
    ELSE LitEnds(text, Head(ss), P) \cup AltEnds(text, Tail(ss), P)

\* positions reachable from P over zero or more characters of class cls
StarEnds(text, cls, P) ==
    {q \in 0..Len(text) :
        \E p \in P : p <= q /\ \A i \in (p + 1)..q : InClass(text[i], cls)}

\* one character of the class, then zero or more
PlusEnds(text, cls, P) ==
    StarEnds(text, cls, {p + 1 : p \in {q \in P : q < Len(text) /\ InClass(text[q + 1], cls)}})

IsWordAt(text, i) == i \in 1..Len(text) /\ InClass(text[i], "w")

\* \b : exactly one of the two neighbours is a word character
BoundaryEnds(text, P) == {p \in P : IsWordAt(text, p) # IsWordAt(text, p + 1)}

ItemEnds(text, it, P) ==
    CASE it.k = "lit" -> LitEnds(text, it.s, P)
      [] it.k = "alt" -> AltEnds(text, it.s, P)
      [] it.k = "plus" -> PlusEnds(text, it.c, P)
      [] it.k = "star" -> StarEnds(text, it.c, P)
      [] it.k = "b" -> BoundaryEnds(text, P)

RECURSIVE MatchEnds(_, _, _)
MatchEnds(text, pat, P) ==
    IF pat = <<>> \/ P = {} THEN P
    ELSE MatchEnds(text, Tail(pat), ItemEnds(text, Head(pat), P))

\* bool(re.search(pat, text, re.IGNORECASE))
re_search(pat, text) == MatchEnds(text, pat, 0..Len(text)) # {}

SetMin(S) == CHOOSE m \in S : \A n \in S : m <= n

\* len(re.findall(pat, text, re.IGNORECASE)): leftmost non-overlapping
\* matches; the scan resumes where the match ended (one further on after an
\* empty match)
RECURSIVE FindallFrom(_, _, _)
FindallFrom(pat, text, pos) ==
    LET starts == {p \in pos..Len(text) : MatchEnds(text, pat, {p}) # {}}
    IN IF starts = {} THEN 0
       ELSE LET s == SetMin(starts)
                e == SetMin(MatchEnds(text, pat, {s}))
            IN 1 + FindallFrom(pat, text, IF e > s THEN e ELSE s + 1)

re_findall_len(pat, text) == FindallFrom(pat, text, 0)

\* ------------------------------------------------------ Python str methods
\* s occupies text[p+1 .. p+Len(s)], compared exactly
StrAt(text, s, p) ==
    /\ p + Len(s) <= Len(text)
    /\ \A j \in 1..Len(s) : text[p + j] = s[j]

\* text.find(s, from): offset of the first occurrence at or after from, -1 if none
str_find(text, s, from) ==
    LET hits == {p \in from..(Len(text) - Len(s)) : StrAt(text, s, p)}
    IN IF hits = {} THEN -1 ELSE SetMin(hits)

\* s in text
str_in(s, text) == str_find(text, s, 0) >= 0

\* text.count(s), s non-empty: non-overlapping occurrences, left to right
RECURSIVE CountFrom(_, _, _)
CountFrom(text, s, from) ==
    LET i == str_find(text, s, from)
    IN IF i < 0 THEN 0 ELSE 1 + CountFrom(text, s, i + Len(s))

str_count(text, s) == CountFrom(text, s, 0)

\* text.replace(old, new), old non-empty: every non-overlapping occurrence
RECURSIVE str_replace(_, _, _)
str_replace(text, old, new) ==
    LET i == str_find(text, old, 0)
    IN IF i < 0 THEN text
       ELSE SubSeq(text, 1, i) \o new
            \o str_replace(SubSeq(text, i + Len(old) + 1, Len(text)), old, new)

\* ------------------------------------------------------------ vocabulary
Issues == {"select_star", "multiple_with_clauses", "subquery_with_aggregation",
           "subquery_with_distinct", "too_many_joins", "order_by_without_limit"}

kwSELECT == <<"S","E","L","E","C","T">>
kwFROM == <<"F","R","O","M">>
kwEXCEPT == <<"E","X","C","E","P","T">>
kwWITH == <<"W","I","T","H">>
kwJOIN == <<"J","O","I","N">>
kwDISTINCT == <<"D","I","S","T","I","N","C","T">>
kwORDER == <<"O","R","D","E","R">>
kwBY == <<"B","Y">>
kwLIMIT == <<"L","I","M","I","T">>
kwORDER_BY == <<"O","R","D","E","R"," ","B","Y">>
Aggregates == <<<<"C","O","U","N","T">>, <<"S","U","M">>, <<"A","V","G">>, <<"M","I","N">>, <<"M","A","X">>>>

\* ------------------------------------------------- detector (AntiPatterns)
\* select_star without the EXCEPT exemption
select_star_ignoring_except(query) ==
    re_search(<<Lit(kwSELECT), Plus("s"), Lit(<<"*">>), Plus("s"), Lit(kwFROM)>>, query)

\* r'SELECT\s+\*\s+FROM' and not r'SELECT\s+\*\s+EXCEPT\s*\('
select_star(query) ==
    /\ re_search(<<Lit(kwSELECT), Plus("s"), Lit(<<"*">>), Plus("s"), Lit(kwFROM)>>, query)
    /\ ~ re_search(<<Lit(kwSELECT), Plus("s"), Lit(<<"*">>), Plus("s"), Lit(kwEXCEPT),
                     Star("s"), Lit(<<"(">>)>>, query)

\* r'\bWITH\b' found more than 3 times
multiple_with_clauses(query) ==
    re_findall_len(<<WordB, Lit(kwWITH), WordB>>, query) > 3

\* r'\(\s*SELECT.*?(COUNT|SUM|AVG|MIN|MAX).*?FROM.*?\)'
subquery_with_aggregation(query) ==
    re_search(<<Lit(<<"(">>), Star("s"), Lit(kwSELECT), Star("dot"), Alt(Aggregates),
                Star("dot"), Lit(kwFROM), Star("dot"), Lit(<<")">>)>>, query)

\* r'\(\s*SELECT\s+DISTINCT.*?FROM.*?\)'
subquery_with_distinct(query) ==
    re_search(<<Lit(<<"(">>), Star("s"), Lit(kwSELECT), Plus("s"), Lit(kwDISTINCT),
                Star("dot"), Lit(kwFROM), Star("dot"), Lit(<<")">>)>>, query)

\* too_many_joins with the threshold off by one
too_many_joins_from_three(query) ==
    re_findall_len(<<WordB, Lit(kwJOIN), WordB>>, query) >= 3

\* r'\bJOIN\b' found more than 3 times
too_many_joins(query) ==
    re_findall_len(<<WordB, Lit(kwJOIN), WordB>>, query) > 3

\* order_by_without_limit taking any LIMIT word for a limit
order_by_without_limit_any_limit(query) ==
    /\ re_search(<<WordB, Lit(kwORDER), Plus("s"), Lit(kwBY), WordB>>, query)
    /\ ~ re_search(<<WordB, Lit(kwLIMIT), WordB>>, query)

\* r'\bORDER\s+BY\b' and not r'\bLIMIT\b\s+\d+'
order_by_without_limit(query) ==
    LET has_order_by == re_search(<<WordB, Lit(kwORDER), Plus("s"), Lit(kwBY), WordB>>, query)
        has_limit == re_search(<<WordB, Lit(kwLIMIT), WordB, Plus("s"), Plus("d")>>, query)
    IN has_order_by /\ ~ has_limit

\* fixed explanation of each issue (if/elif chain of analyze_query)
Explanation(issue) ==
    CASE issue = "select_star" -> "Using SELECT * retrieves unnecessary columns, increasing I/O and network load."
      [] issue = "multiple_with_clauses" -> "Too many WITH clauses can make query optimization difficult."
      [] issue = "subquery_with_aggregation" -> "Subqueries with aggregation can be inefficient - consider pre-aggregation."
      [] issue = "subquery_with_distinct" -> "DISTINCT in subqueries can be expensive - consider alternatives."
      [] issue = "too_many_joins" -> "Having many joins can lead to performance issues - consider denormalizing."
      [] issue = "order_by_without_limit" -> "ORDER BY without LIMIT sorts the entire result set, which is costly."

\* rule_analysis stopping at a detected wildcard projection
rule_analysis_short_circuit(query) ==
    IF select_star(query) THEN [select_star |-> TRUE]
    ELSE [select_star |-> FALSE,
          multiple_with_clauses |-> multiple_with_clauses(query),
          subquery_with_aggregation |-> subquery_with_aggregation(query),
          subquery_with_distinct |-> subquery_with_distinct(query),
          too_many_joins |-> too_many_joins(query),
          order_by_without_limit |-> order_by_without_limit(query)]

\* the rule_analysis dict of the fallback branch
rule_analysis(query) ==
    [select_star |-> select_star(query),
     multiple_with_clauses |-> multiple_with_clauses(query),
     subquery_with_aggregation |-> subquery_with_aggregation(query),
     subquery_with_distinct |-> subquery_with_distinct(query),
     too_many_joins |-> too_many_joins(query),
     order_by_without_limit |-> order_by_without_limit(query)]

\* rule_explanations without the "if detected" test
rule_explanations_for_every_issue(ra) == [issue \in DOMAIN ra |-> Explanation(issue)]

\* explanations: one entry per detected issue
rule_explanations(ra) == [issue \in {i \in DOMAIN ra : ra[i]} |-> Explanation(issue)]

\* any(d.values())
AnyValue(d) == \E i \in DOMAIN d : d[i]

\* the fallback branch of app.analyze_query
rule_based_analysis(query) ==
    LET ra == rule_analysis(query)
    IN [query_text |-> query, analysis |-> ra,
        explanations |-> rule_explanations(ra), issues_found |-> AnyValue(ra)]

\* --------------------------------------- optimizer (RuleBasedQueryOptimizer)
SelectStarText == <<"S","E","L","E","C","T"," ","*">>
SelectStarCols == <<"S","E","L","E","C","T"," ","i","d",","," ","n","a","m","e",","," ","v","a","l","u","e",","," ","t","i","m","e","s","t","a","m","p"," ","/","*"," ","s","p","e","c","i","f","y"," ","o","n","l","y"," ","n","e","e","d","e","d"," ","c","o","l","u","m","n","s"," ","*","/">>
WithAdvice == <<"-","-"," ","R","e","c","o","m","m","e","n","d","a","t","i","o","n",":"," ","C","o","n","s","i","d","e","r"," ","c","o","m","b","i","n","i","n","g"," ","r","e","l","a","t","e","d"," ","W","I","T","H"," ","c","l","a","u","s","e","s","\n">>
AggregationAdvice == <<"-","-"," ","R","e","c","o","m","m","e","n","d","a","t","i","o","n",":"," ","C","o","n","s","i","d","e","r"," ","u","s","i","n","g"," ","J","O","I","N"," ","w","i","t","h"," ","p","r","e","-","a","g","g","r","e","g","a","t","e","d"," ","t","a","b","l","e","s"," ","i","n","s","t","e","a","d"," ","o","f"," ","s","u","b","q","u","e","r","i","e","s","\n">>
DistinctAdvice == <<"-","-"," ","R","e","c","o","m","m","e","n","d","a","t","i","o","n",":"," ","C","o","n","s","i","d","e","r"," ","u","s","i","n","g"," ","E","X","I","S","T","S"," ","o","r"," ","G","R","O","U","P"," ","B","Y"," ","i","n","s","t","e","a","d"," ","o","f"," ","D","I","S","T","I","N","C","T"," ","i","n"," ","s","u","b","q","u","e","r","i","e","s","\n">>
LimitSuffix == <<"\n","L","I","M","I","T"," ","1","0","0","0"," ","/","*"," ","A","d","d","e","d"," ","l","i","m","i","t"," ","t","o"," ","i","m","p","r","o","v","e"," ","p","e","r","f","o","r","m","a","n","c","e"," ","*","/">>

\* optimize_select_star as query.replace(old, new, 1)
optimize_select_star_first_only(query) ==
    LET i == str_find(query, SelectStarText, 0)
    IN IF i < 0 THEN query
       ELSE SubSeq(query, 1, i) \o SelectStarCols
            \o SubSeq(query, i + Len(SelectStarText) + 1, Len(query))

optimize_select_star(query) == str_replace(query, SelectStarText, SelectStarCols)

\* optimize_with_clauses putting the advice after the query
optimize_with_clauses_appended(query) == query \o WithAdvice

optimize_with_clauses(query) == WithAdvice \o query

optimize_subquery_with_aggregation(query) == AggregationAdvice \o query

optimize_distinct_in_subquery(query) == DistinctAdvice \o query

\* add_limit_to_order_by without the upper() calls
add_limit_case_sensitive(query) ==
    IF str_in(kwORDER_BY, query) /\ ~ str_in(kwLIMIT, query)
    THEN query \o LimitSuffix
    ELSE query

add_limit_to_order_by(query) ==
    IF str_in(kwORDER_BY, UpperStr(query)) /\ ~ str_in(kwLIMIT, UpperStr(query))
    THEN query \o LimitSuffix
    ELSE query

\* d.get(key, True)
Get_defaulting_to_true(d, key) == IF key \in DOMAIN d THEN d[key] ELSE TRUE

\* d.get(key, False)
Get(d, key) == IF key \in DOMAIN d THEN d[key] ELSE FALSE

\* rule_based_optimize with the DISTINCT advice added before the aggregation
\* advice
rule_based_optimize_reordered(query, a) ==
    LET q1 == IF Get(a, "select_star") THEN optimize_select_star(query) ELSE query
        q2 == IF Get(a, "multiple_with_clauses") THEN optimize_with_clauses(q1) ELSE q1
        q3 == IF Get(a, "subquery_with_distinct") THEN optimize_distinct_in_subquery(q2) ELSE q2
        q4 == IF Get(a, "subquery_with_aggregation") THEN optimize_subquery_with_aggregation(q3) ELSE q3
        q5 == IF Get(a, "order_by_without_limit") THEN add_limit_to_order_by(q4) ELSE q4
    IN q5

\* rule_based_optimize with an advice line for too_many_joins
rule_based_optimize_with_join_advice(query, a) ==
    LET q1 == IF Get(a, "select_star") THEN optimize_select_star(query) ELSE query
        q2 == IF Get(a, "multiple_with_clauses") THEN optimize_with_clauses(q1) ELSE q1
        q3 == IF Get(a, "subquery_with_aggregation") THEN optimize_subquery_with_aggregation(q2) ELSE q2
        q4 == IF Get(a, "subquery_with_distinct") THEN optimize_distinct_in_subquery(q3) ELSE q3
        q5 == IF Get(a, "too_many_joins") THEN <<"-", "-", "\n">> \o q4 ELSE q4
        q6 == IF Get(a, "order_by_without_limit") THEN add_limit_to_order_by(q5) ELSE q5
    IN q6

\* rule_based_optimize adding the limit whatever the analysis says
rule_based_optimize_always_limit(query, a) ==
    LET q1 == IF Get(a, "select_star") THEN optimize_select_star(query) ELSE query
        q2 == IF Get(a, "multiple_with_clauses") THEN optimize_with_clauses(q1) ELSE q1
        q3 == IF Get(a, "subquery_with_aggregation") THEN optimize_subquery_with_aggregation(q2) ELSE q2
        q4 == IF Get(a, "subquery_with_distinct") THEN optimize_distinct_in_subquery(q3) ELSE q3
    IN add_limit_to_order_by(q4)

\* the fallback branch of app.optimize_query; a is analysis["analysis"]
rule_based_optimize(query, a) ==
    LET q1 == IF Get(a, "select_star") THEN optimize_select_star(query) ELSE query
        q2 == IF Get(a, "multiple_with_clauses") THEN optimize_with_clauses(q1) ELSE q1
        q3 == IF Get(a, "subquery_with_aggregation") THEN optimize_subquery_with_aggregation(q2) ELSE q2
        q4 == IF Get(a, "subquery_with_distinct") THEN optimize_distinct_in_subquery(q3) ELSE q3
        q5 == IF Get(a, "order_by_without_limit") THEN add_limit_to_order_by(q4) ELSE q4
    IN q5

\* ------------------------------- LLM delegate (llm_integration.LLMQueryAnalyzer)
\* What can happen to one call of the delegate: the request raises, the
\* status is not 200, the body has no content, the content holds no JSON, the
\* JSON has no "analysis" key, or a result comes back.
AnalyzeOutcomes == {"ok", "network_error", "non200", "no_content", "no_json", "no_analysis_key"}
OptimizeOutcomes == {"ok", "network_error", "non200", "no_content"}

AllTrue == [i \in Issues |-> TRUE]
AllFalse == [i \in Issues |-> FALSE]

\* Results the model may send back; analysis_is_dict is false for a JSON
\* document whose "analysis" entry is not an object.
LLMAnswers ==
    {[analysis |-> AllFalse, explanations |-> <<>>, analysis_is_dict |-> TRUE],
     [analysis |-> AllTrue, explanations |-> [i \in Issues |-> "llm"], analysis_is_dict |-> TRUE],
     [analysis |-> <<>>, explanations |-> <<>>, analysis_is_dict |-> FALSE]}

NoAnswer == [analysis |-> <<>>, explanations |-> <<>>, analysis_is_dict |-> FALSE]

\* Texts the model may send back for an optimization
LLMTexts == {<<"S","E","L","E","C","T"," ","1">>}

AggregateCalls == {<<"C","O","U","N","T","(">>, <<"S","U","M","(">>, <<"A","V","G","(">>, <<"M","I","N","(">>, <<"M","A","X","(">>}

\* heuristic_analysis looking for "SELECT *" instead of "*"
heuristic_analysis_select_star_text(query) ==
    LET up == UpperStr(query)
    IN [select_star |-> str_in(SelectStarText, up),
        multiple_with_clauses |-> str_count(up, kwWITH) > 3,
        subquery_with_aggregation |-> \E f \in AggregateCalls : str_in(f, up),
        subquery_with_distinct |-> str_in(kwDISTINCT, up),
        too_many_joins |-> str_count(up, kwJOIN) > 3,
        order_by_without_limit |-> str_in(kwORDER_BY, up) /\ ~ str_in(kwLIMIT, up)]

\* the analysis of the except branch of LLMQueryAnalyzer.analyze_query
heuristic_analysis(query) ==
    LET up == UpperStr(query)
    IN [select_star |-> str_in(<<"*">>, up),
        multiple_with_clauses |-> str_count(up, kwWITH) > 3,
        subquery_with_aggregation |-> \E f \in AggregateCalls : str_in(f, up),
        subquery_with_distinct |-> str_in(kwDISTINCT, up),
        too_many_joins |-> str_count(up, kwJOIN) > 3,
        order_by_without_limit |-> str_in(kwORDER_BY, up) /\ ~ str_in(kwLIMIT, up)]

HeuristicExplanation(issue) ==
    CASE issue = "select_star" -> "Using SELECT * retrieves unnecessary columns."
      [] issue = "multiple_with_clauses" -> "Too many WITH clauses found."
      [] issue = "subquery_with_aggregation" -> "Subqueries with aggregation can be inefficient."
      [] issue = "subquery_with_distinct" -> "DISTINCT in subqueries can be expensive."
      [] issue = "too_many_joins" -> "Having many joins can lead to performance issues."
      [] issue = "order_by_without_limit" -> "ORDER BY without LIMIT sorts the entire result set."

\* LLMQueryAnalyzer.analyze_query: the result on success, the substring
\* heuristics on every failure; it never raises
llm_analyze_query(query, outcome, answer) ==
    IF outcome = "ok" THEN answer
    ELSE LET h == heuristic_analysis(query)
         IN [analysis |-> h,
             explanations |-> [i \in Issues |-> IF h[i] THEN HeuristicExplanation(i) ELSE ""],
             analysis_is_dict |-> TRUE]

LLMSelectStarCols == <<"S","E","L","E","C","T"," ","i","d",","," ","n","a","m","e",","," ","v","a","l","u","e",","," ","t","i","m","e","s","t","a","m","p"," ","/","*"," ","S","e","l","e","c","t"," ","o","n","l","y"," ","n","e","c","e","s","s","a","r","y"," ","c","o","l","u","m","n","s"," ","*","/">>

\* LLMQueryAnalyzer.optimize_query: the text on success, two basic rewrites on
\* every failure
llm_optimize_query(query, a, outcome, text) ==
    IF outcome = "ok" THEN text
    ELSE LET q1 == IF Get(a, "select_star")
                   THEN str_replace(query, SelectStarText, LLMSelectStarCols)
                   ELSE query
         IN IF Get(a, "order_by_without_limit") /\ ~ str_in(kwLIMIT, q1)
            THEN q1 \o LimitSuffix
            ELSE q1

\* ------------------------------------------------------------ app.py tools
\* the try block of app.analyze_query returns: the delegate exists and its
\* result can be converted (llm_analysis["analysis"].values() works)
LLMBranchReturns(llm, answer) == llm /\ answer.analysis_is_dict

\* app.analyze_query
analyze_query(query, llm, outcome, answer) ==
    LET llm_analysis == llm_analyze_query(query, outcome, answer)
    IN IF LLMBranchReturns(llm, llm_analysis)
       THEN [query_text |-> query,
             analysis |-> llm_analysis.analysis,
             explanations |-> llm_analysis.explanations,
             issues_found |-> AnyValue(llm_analysis.analysis)]
       ELSE rule_based_analysis(query)

\* app.optimize_query; an is the analysis argument
optimize_query(query, an, llm, outcome, text) ==
    IF llm THEN llm_optimize_query(query, an.analysis, outcome, text)
    ELSE rule_based_optimize(query, an.analysis)

\* ---------------------------------------------------------------- inputs
\* Query texts are concatenations of fragments.
Fragments ==
    {<<"S","E","L","E","C","T"," ","*"," ","F","R","O","M"," ","t">>,
     <<"s","e","l","e","c","t"," "," ","*","\n","f","r","o","m"," ","t">>,
     <<"S","E","L","E","C","T"," ","*"," ","E","X","C","E","P","T"," ","(","x",")"," ","F","R","O","M"," ","t">>,
     <<"S","E","L","E","C","T"," ","a","*","b"," ","F","R","O","M"," ","t">>,
     <<" ","J","O","I","N"," ","a"," ","J","O","I","N"," ","b">>,
     <<" ","j","o","i","n"," ","c"," ","J","O","I","N"," ","d"," ","'","J","o","i","n","'">>,
     <<"J","O","I","N">>,
     <<"_","x">>,
     <<" ","O","R","D","E","R"," ","B","Y"," ","x">>,
     <<" ","o","r","d","e","r","\n","b","y"," ","y">>,
     <<" ","L","I","M","I","T"," ","1","0">>,
     <<" ","L","I","M","I","T"," ","n">>,
     <<" ","(","S","E","L","E","C","T"," ","C","O","U","N","T","(","x",")"," ","F","R","O","M"," ","u",")">>,
     <<" ","(","S","E","L","E","C","T"," ","M","A","X","(","x",")","\n","F","R","O","M"," ","u",")">>,
     <<" ","(","S","E","L","E","C","T"," ","x"," ","F","R","O","M"," ","u"," ","W","H","E","R","E"," ","S","U","M",")">>,
     <<" ","(","S","E","L","E","C","T"," ","D","I","S","T","I","N","C","T"," ","x"," ","F","R","O","M"," ","u",")">>,
     <<" ","W","I","T","H"," ","p"," ","W","I","T","H"," ","q">>}

OptFragments ==
    {<<"S","E","L","E","C","T"," ","*"," ","F","R","O","M"," ","t">>,
     <<"s","e","l","e","c","t"," ","*"," ","f","r","o","m"," ","u">>,
     <<" ","O","R","D","E","R"," ","B","Y"," ","x">>,
     <<" ","o","r","d","e","r"," ","b","y"," ","y">>,
     <<" ","O","R","D","E","R","\n","B","Y"," ","z">>,
     <<" ","l","i","m","i","t"," ","5">>,
     <<"S","E","L","E","C","T"," ","x"," ","F","R","O","M"," ","t">>}

RECURSIVE Texts(_, _)
Texts(frags, n) ==
    IF n = 0 THEN {<<>>}
    ELSE LET shorter == Texts(frags, n - 1)
         IN shorter \cup {t \o f : t \in shorter, f \in frags}

Queries == Texts(Fragments, MaxFrags)
OptQueries == Texts(OptFragments, MaxOptFrags)

\* analysis mappings handed to optimize_query: every subset of the issue
\* names as keys, every boolean value
Diagnoses == UNION {[K -> BOOLEAN] : K \in SUBSET Issues}

NoAnalysis == [analysis |-> <<>>]

\* ------------------------- request with retries (llm/analyzer.LLMQueryAnalyzer)
\* default of the max_retries parameter
DefaultMaxRetries == 3

\* largest max_retries a caller passes
MaxRetriesBound == 3

StatusOK == 200
StatusOverloaded == 529

\* statuses the service answers with
Statuses == {StatusOK, 204, 400, 500, StatusOverloaded}

\* What one requests.post call does: it raises (connection error, timeout),
\* or a response comes back; json tells whether the body of a 200 response is
\* a JSON document.
Responses ==
    {[raised |-> TRUE, status |-> 0, json |-> FALSE]}
    \cup {[raised |-> FALSE, status |-> s, json |-> j] : s \in Statuses, j \in BOOLEAN}

NoResponse == [raised |-> FALSE, status |-> 0, json |-> FALSE]

\* response.raise_for_status() raises HTTPError
is_http_error(status) == status >= 400 /\ status < 600

\* may_sleep that also sleeps after the last attempt
may_sleep_after_last_attempt(attempt_, max_retries_) == attempt_ < max_retries_

\* attempt < self.max_retries - 1
may_sleep(attempt_, max_retries_) == attempt_ < max_retries_ - 1

\* attempt_outcome returning the body of every 2xx response
attempt_outcome_any_success(r, wrapped, attempt_, max_retries_) ==
    IF ~ r.raised /\ r.status \in {StatusOK, 204} /\ (r.json \/ r.status # StatusOK) THEN "returned"
    ELSE IF ~ r.raised /\ r.status = StatusOK /\ ~ wrapped THEN "raised_request_error"
    ELSE IF r.raised \/ r.status = StatusOK \/ is_http_error(r.status)
         THEN IF may_sleep(attempt_, max_retries_) THEN "sleeping" ELSE "raised_request_error"
         ELSE "next_attempt"

\* One iteration of the retry loop after its POST: where the call goes.
\* wrapped tells whether the installed requests raises its JSONDecodeError
\* as a RequestException (releases from 2.27) or as a plain ValueError.
attempt_outcome(r, wrapped, attempt_, max_retries_) ==
    IF ~ r.raised /\ r.status = StatusOK /\ r.json THEN "returned"
    ELSE IF ~ r.raised /\ r.status = StatusOK /\ ~ wrapped THEN "raised_request_error"
    ELSE IF ~ r.raised /\ r.status = StatusOverloaded /\ may_sleep(attempt_, max_retries_) THEN "sleeping"
    ELSE IF r.raised \/ r.status = StatusOK \/ is_http_error(r.status)
         THEN IF may_sleep(attempt_, max_retries_) THEN "sleeping" ELSE "raised_request_error"
         ELSE "next_attempt"

\* no _make_api_request call is part of the run
ApiUnused ==
    /\ max_retries = DefaultMaxRetries
    /\ attempt = 0
    /\ api_pc = "unused"
    /\ posts = 0
    /\ sleeps = 0
    /\ response = NoResponse

\* query texts of the runs with retries
ApiQueries == {<<>>, SelectStarText, kwDISTINCT \o <<" ">> \o kwORDER_BY}

\* ------------------------------------------------- query store (app.py tools)
MOCK_QUERY_DATA ==
    <<[query_id |-> "1",
      query_text |-> <<"S","E","L","E","C","T"," ","*"," ","F","R","O","M"," ","s","a","l","e","s","_","d","a","t","a"," ","W","H","E","R","E"," ","d","a","t","e"," ",">"," ","'","2","0","2","3","-","0","1","-","0","1","'">>,
      runtime_ms |-> 15000,
      user |-> "analyst1",
      timestamp |-> "2023-03-15T14:25:10",
      bytes_processed |-> 250000000],
     [query_id |-> "2",
      query_text |-> <<"\n"," "," "," "," "," "," "," "," ","W","I","T","H"," ","c","u","s","t","o","m","e","r","_","o","r","d","e","r","s"," ","A","S"," ","(","\n"," "," "," "," "," "," "," "," "," "," "," "," ","S","E","L","E","C","T"," ","c","u","s","t","o","m","e","r","_","i","d",","," ","C","O","U","N","T","(","D","I","S","T","I","N","C","T"," ","o","r","d","e","r","_","i","d",")"," ","a","s"," ","o","r","d","e","r","_","c","o","u","n","t","\n"," "," "," "," "," "," "," "," "," "," "," "," ","F","R","O","M"," ","o","r","d","e","r","s","\n"," "," "," "," "," "," "," "," "," "," "," "," ","G","R","O","U","P"," ","B","Y"," ","c","u","s","t","o","m","e","r","_","i","d","\n"," "," "," "," "," "," "," "," ",")",",","\n"," "," "," "," "," "," "," "," ","c","u","s","t","o","m","e","r","_","i","t","e","m","s"," ","A","S"," ","(","\n"," "," "," "," "," "," "," "," "," "," "," "," ","S","E","L","E","C","T"," ","c","u","s","t","o","m","e","r","_","i","d",","," ","C","O","U","N","T","(","D","I","S","T","I","N","C","T"," ","i","t","e","m","_","i","d",")"," ","a","s"," ","i","t","e","m","_","c","o","u","n","t","\n"," "," "," "," "," "," "," "," "," "," "," "," ","F","R","O","M"," ","o","r","d","e","r","_","i","t","e","m","s","\n"," "," "," "," "," "," "," "," "," "," "," "," ","G","R","O","U","P"," ","B","Y"," ","c","u","s","t","o","m","e","r","_","i","d","\n"," "," "," "," "," "," "," "," ",")","\n"," "," "," "," "," "," "," "," ","S","E","L","E","C","T"," ","c",".","*",","," ","c","o",".","o","r","d","e","r","_","c","o","u","n","t",","," ","c","i",".","i","t","e","m","_","c","o","u","n","t","\n"," "," "," "," "," "," "," "," ","F","R","O","M"," ","c","u","s","t","o","m","e","r","s"," ","c","\n"," "," "," "," "," "," "," "," ","L","E","F","T"," ","J","O","I","N"," ","c","u","s","t","o","m","e","r","_","o","r","d","e","r","s"," ","c","o"," ","O","N"," ","c",".","c","u","s","t","o","m","e","r","_","i","d"," ","="," ","c","o",".","c","u","s","t","o","m","e","r","_","i","d","\n"," "," "," "," "," "," "," "," ","L","E","F","T"," ","J","O","I","N"," ","c","u","s","t","o","m","e","r","_","i","t","e","m","s"," ","c","i"," ","O","N"," ","c",".","c","u","s","t","o","m","e","r","_","i","d"," ","="," ","c","i",".","c","u","s","t","o","m","e","r","_","i","d","\n"," "," "," "," "," "," "," "," ","W","H","E","R","E"," ","c",".","r","e","g","i","o","n"," ","="," ","'","N","O","R","T","H","'","\n"," "," "," "," "," "," "," "," ">>,
      runtime_ms |-> 45000,
      user |-> "analyst2",
      timestamp |-> "2023-03-16T10:15:22",
      bytes_processed |-> 750000000],
     [query_id |-> "3",
      query_text |-> <<"\n"," "," "," "," "," "," "," "," ","S","E","L","E","C","T"," ","\n"," "," "," "," "," "," "," "," "," "," "," "," ","d","a","t","e",","," ","\n"," "," "," "," "," "," "," "," "," "," "," "," ","s","t","o","r","e","_","i","d",","," ","\n"," "," "," "," "," "," "," "," "," "," "," "," ","S","U","M","(","a","m","o","u","n","t",")"," ","a","s"," ","t","o","t","a","l","_","s","a","l","e","s",",","\n"," "," "," "," "," "," "," "," "," "," "," "," ","C","O","U","N","T","(","D","I","S","T","I","N","C","T"," ","c","u","s","t","o","m","e","r","_","i","d",")"," ","a","s"," ","u","n","i","q","u","e","_","c","u","s","t","o","m","e","r","s","\n"," "," "," "," "," "," "," "," ","F","R","O","M"," ","s","a","l","e","s","_","d","a","t","a","\n"," "," "," "," "," "," "," "," ","W","H","E","R","E"," ","d","a","t","e"," ","B","E","T","W","E","E","N"," ","'","2","0","2","3","-","0","1","-","0","1","'"," ","A","N","D"," ","'","2","0","2","3","-","0","1","-","3","1","'","\n"," "," "," "," "," "," "," "," ","G","R","O","U","P"," ","B","Y"," ","d","a","t","e",","," ","s","t","o","r","e","_","i","d","\n"," "," "," "," "," "," "," "," ","H","A","V","I","N","G"," ","S","U","M","(","a","m","o","u","n","t",")"," ",">"," ","1","0","0","0","\n"," "," "," "," "," "," "," "," ","O","R","D","E","R"," ","B","Y"," ","d","a","t","e",","," ","t","o","t","a","l","_","s","a","l","e","s"," ","D","E","S","C","\n"," "," "," "," "," "," "," "," ">>,
      runtime_ms |-> 8000,
      user |-> "analyst1",
      timestamp |-> "2023-03-16T11:30:45",
      bytes_processed |-> 120000000],
     [query_id |-> "4",
      query_text |-> <<"\n"," "," "," "," "," "," "," "," ","S","E","L","E","C","T"," ","\n"," "," "," "," "," "," "," "," "," "," "," "," ","t","1",".","*",",","\n"," "," "," "," "," "," "," "," "," "," "," "," ","t","2",".","d","i","m","e","n","s","i","o","n","1",",","\n"," "," "," "," "," "," "," "," "," "," "," "," ","t","2",".","d","i","m","e","n","s","i","o","n","2","\n"," "," "," "," "," "," "," "," ","F","R","O","M"," ","\n"," "," "," "," "," "," "," "," "," "," "," "," ","h","u","g","e","_","f","a","c","t","_","t","a","b","l","e"," ","t","1","\n"," "," "," "," "," "," "," "," ","J","O","I","N"," ","\n"," "," "," "," "," "," "," "," "," "," "," "," ","(","S","E","L","E","C","T"," ","i","d",","," ","d","i","m","e","n","s","i","o","n","1",","," ","d","i","m","e","n","s","i","o","n","2"," ","F","R","O","M"," ","d","i","m","e","n","s","i","o","n","_","t","a","b","l","e"," ","W","H","E","R","E"," ","r","e","g","i","o","n"," ","="," ","'","W","E","S","T","'",")"," ","t","2","\n"," "," "," "," "," "," "," "," ","O","N"," ","\n"," "," "," "," "," "," "," "," "," "," "," "," ","t","1",".","d","i","m","e","n","s","i","o","n","_","i","d"," ","="," ","t","2",".","i","d","\n"," "," "," "," "," "," "," "," ","W","H","E","R","E"," ","\n"," "," "," "," "," "," "," "," "," "," "," "," ","t","1",".","d","a","t","e"," ",">"," ","'","2","0","2","3","-","0","1","-","0","1","'","\n"," "," "," "," "," "," "," "," ">>,
      runtime_ms |-> 65000,
      user |-> "analyst3",
      timestamp |-> "2023-03-17T09:05:18",
      bytes_processed |-> 1200000000],
     [query_id |-> "5",
      query_text |-> <<"\n"," "," "," "," "," "," "," "," ","S","E","L","E","C","T"," ","\n"," "," "," "," "," "," "," "," "," "," "," "," ","*","\n"," "," "," "," "," "," "," "," ","F","R","O","M"," ","\n"," "," "," "," "," "," "," "," "," "," "," "," ","t","r","a","n","s","a","c","t","i","o","n","s","\n"," "," "," "," "," "," "," "," ","W","H","E","R","E"," ","\n"," "," "," "," "," "," "," "," "," "," "," "," ","d","a","t","e"," ","="," ","'","2","0","2","3","-","0","3","-","1","5","'","\n"," "," "," "," "," "," "," "," "," "," "," "," ","A","N","D"," ","(","\n"," "," "," "," "," "," "," "," "," "," "," "," "," "," "," "," ","S","E","L","E","C","T"," ","C","O","U","N","T","(","D","I","S","T","I","N","C","T"," ","p","r","o","d","u","c","t","_","i","d",")"," ","\n"," "," "," "," "," "," "," "," "," "," "," "," "," "," "," "," ","F","R","O","M"," ","t","r","a","n","s","a","c","t","i","o","n","_","i","t","e","m","s"," ","\n"," "," "," "," "," "," "," "," "," "," "," "," "," "," "," "," ","W","H","E","R","E"," ","t","r","a","n","s","a","c","t","i","o","n","_","i","d"," ","="," ","t","r","a","n","s","a","c","t","i","o","n","s",".","i","d","\n"," "," "," "," "," "," "," "," "," "," "," "," ",")"," ",">"," ","3","\n"," "," "," "," "," "," "," "," ">>,
      runtime_ms |-> 85000,
      user |-> "analyst2",
      timestamp |-> "2023-03-17T14:22:33",
      bytes_processed |-> 900000000]>>

\* Optional[str] arguments: None, or a string
None == [given |-> FALSE, value |-> ""]
Some(s) == [given |-> TRUE, value |-> s]

RECURSIVE slow_queries_from(_, _, _, _)
\* the for loop of get_slow_queries from record i on
slow_queries_from(data, i, min_runtime, user) ==
    IF i > Len(data) THEN <<>>
    ELSE LET query == data[i]
             rest == slow_queries_from(data, i + 1, min_runtime, user)
         IN IF query.runtime_ms >= min_runtime /\ (~ user.given \/ query.user = user.value)
            THEN <<query>> \o rest
            ELSE rest

\* get_slow_queries keeping only the queries slower than min_runtime
get_slow_queries_strictly_slower(data, min_runtime, user) ==
    slow_queries_from(data, 1, min_runtime + 1, user)

\* get_slow_queries(min_runtime, user) on the stored list
get_slow_queries(data, min_runtime, user) == slow_queries_from(data, 1, min_runtime, user)

\* get_query_by_id(query_id): the first record with the id, or None
get_query_by_id(data, query_id) ==
    LET hits == {i \in 1..Len(data) : data[i].query_id = query_id}
    IN IF hits = {} THEN [found |-> FALSE, query |-> <<>>]
       ELSE [found |-> TRUE, query |-> data[SetMin(hits)]]

\* arguments of the tool calls
MinRuntimes == {0, 8000, 8001, 45000, 85000, 85001}
Users == {None, Some("analyst1"), Some("analyst2"), Some("nobody"), Some("")}
QueryIds == {"1", "3", "5", "6", ""}

\* query_id parameters of the pages: a stored id, an unknown id, none ("")
PageQueryIds == {"1", "6", ""}

\* no request has been handled
NoRequest == [kind |-> "none"]

\* nothing has been rendered
NoPage == [kind |-> "none"]

\* the store as loaded at import; the front end has handled nothing
WebIdle ==
    /\ store = MOCK_QUERY_DATA
    /\ session = <<>>
    /\ request = NoRequest
    /\ rendered = NoPage
    /\ awaiting = None

\* ------------------ class copies in app.py (AntiPatterns, RuleBasedQueryOptimizer)
\* AntiPatterns.<issue>(query) of the copy in app.py
app_predicate(issue, query) ==
    CASE issue = "select_star" ->
          /\ re_search(<<Lit(<<"S","E","L","E","C","T">>), Plus("s"), Lit(<<"*">>), Plus("s"),
                        Lit(<<"F","R","O","M">>)>>, query)
          /\ ~ re_search(<<Lit(<<"S","E","L","E","C","T">>), Plus("s"), Lit(<<"*">>), Plus("s"),
                          Lit(<<"E","X","C","E","P","T">>), Star("s"), Lit(<<"(">>)>>, query)
      [] issue = "multiple_with_clauses" ->
          re_findall_len(<<WordB, Lit(<<"W","I","T","H">>), WordB>>, query) > 3
      [] issue = "subquery_with_aggregation" ->
          re_search(<<Lit(<<"(">>), Star("s"), Lit(<<"S","E","L","E","C","T">>), Star("dot"),
                    Alt(<<<<"C","O","U","N","T">>, <<"S","U","M">>, <<"A","V","G">>,
                    <<"M","I","N">>, <<"M","A","X">>>>), Star("dot"), Lit(<<"F","R","O","M">>),
                    Star("dot"), Lit(<<")">>)>>, query)
      [] issue = "subquery_with_distinct" ->
          re_search(<<Lit(<<"(">>), Star("s"), Lit(<<"S","E","L","E","C","T">>), Plus("s"),
                    Lit(<<"D","I","S","T","I","N","C","T">>), Star("dot"),
                    Lit(<<"F","R","O","M">>), Star("dot"), Lit(<<")">>)>>, query)
      [] issue = "too_many_joins" ->
          re_findall_len(<<WordB, Lit(<<"J","O","I","N">>), WordB>>, query) > 3
      [] issue = "order_by_without_limit" ->
          LET has_order_by == re_search(<<WordB, Lit(<<"O","R","D","E","R">>), Plus("s"), Lit(<<"B","Y">>), WordB>>, query)
              has_limit == re_search(<<WordB, Lit(<<"L","I","M","I","T">>), WordB, Plus("s"), Plus("d")>>, query)
          IN has_order_by /\ ~ has_limit

\* the RuleBasedQueryOptimizer method of the copy in app.py applied for an issue
app_transform(issue, query) ==
    CASE issue = "select_star" ->
          str_replace(query, <<"S","E","L","E","C","T"," ","*">>,
                      <<"S","E","L","E","C","T"," ","i","d",","," ","n","a","m","e",","," ","v","a","l","u","e",","," ","t","i","m","e","s","t","a","m","p"," ","/","*"," ","s","p","e","c","i","f","y"," ","o","n","l","y"," ","n","e","e","d","e","d"," ","c","o","l","u","m","n","s"," ","*","/">>)
      [] issue = "multiple_with_clauses" ->
          <<"-","-"," ","R","e","c","o","m","m","e","n","d","a","t","i","o","n",":"," ","C","o","n","s","i","d","e","r"," ","c","o","m","b","i","n","i","n","g"," ","r","e","l","a","t","e","d"," ","W","I","T","H"," ","c","l","a","u","s","e","s","\n">>
          \o query
      [] issue = "subquery_with_aggregation" ->
          <<"-","-"," ","R","e","c","o","m","m","e","n","d","a","t","i","o","n",":"," ","C","o","n","s","i","d","e","r"," ","u","s","i","n","g"," ","J","O","I","N"," ","w","i","t","h"," ","p","r","e","-","a","g","g","r","e","g","a","t","e","d"," ","t","a","b","l","e","s"," ","i","n","s","t","e","a","d"," ","o","f"," ","s","u","b","q","u","e","r","i","e","s","\n">>
          \o query
      [] issue = "subquery_with_distinct" ->
          <<"-","-"," ","R","e","c","o","m","m","e","n","d","a","t","i","o","n",":"," ","C","o","n","s","i","d","e","r"," ","u","s","i","n","g"," ","E","X","I","S","T","S"," ","o","r"," ","G","R","O","U","P"," ","B","Y"," ","i","n","s","t","e","a","d"," ","o","f"," ","D","I","S","T","I","N","C","T"," ","i","n"," ","s","u","b","q","u","e","r","i","e","s","\n">>
          \o query
      [] issue = "order_by_without_limit" ->
          IF str_in(<<"O","R","D","E","R"," ","B","Y">>, UpperStr(query)) /\ ~ str_in(<<"L","I","M","I","T">>, UpperStr(query))
          THEN query \o <<"\n","L","I","M","I","T"," ","1","0","0","0"," ","/","*"," ","A","d","d","e","d"," ","l","i","m","i","t"," ","t","o"," ","i","m","p","r","o","v","e"," ","p","e","r","f","o","r","m","a","n","c","e"," ","*","/">>
          ELSE query

\* ------------- class copies in mcp_server_llm.py
\* AntiPatterns.<issue>(query) of the copy in mcp_server_llm.py
mcp_predicate(issue, query) ==
    CASE issue = "select_star" ->
          /\ re_search(<<Lit(<<"S","E","L","E","C","T">>), Plus("s"), Lit(<<"*">>), Plus("s"),
                        Lit(<<"F","R","O","M">>)>>, query)
          /\ ~ re_search(<<Lit(<<"S","E","L","E","C","T">>), Plus("s"), Lit(<<"*">>), Plus("s"),
                          Lit(<<"E","X","C","E","P","T">>), Star("s"), Lit(<<"(">>)>>, query)
      [] issue = "multiple_with_clauses" ->
          re_findall_len(<<WordB, Lit(<<"W","I","T","H">>), WordB>>, query) > 3
      [] issue = "subquery_with_aggregation" ->
          re_search(<<Lit(<<"(">>), Star("s"), Lit(<<"S","E","L","E","C","T">>), Star("dot"),
                    Alt(<<<<"C","O","U","N","T">>, <<"S","U","M">>, <<"A","V","G">>,
                    <<"M","I","N">>, <<"M","A","X">>>>), Star("dot"), Lit(<<"F","R","O","M">>),
                    Star("dot"), Lit(<<")">>)>>, query)
      [] issue = "subquery_with_distinct" ->
          re_search(<<Lit(<<"(">>), Star("s"), Lit(<<"S","E","L","E","C","T">>), Plus("s"),
                    Lit(<<"D","I","S","T","I","N","C","T">>), Star("dot"),
                    Lit(<<"F","R","O","M">>), Star("dot"), Lit(<<")">>)>>, query)
      [] issue = "too_many_joins" ->
          re_findall_len(<<WordB, Lit(<<"J","O","I","N">>), WordB>>, query) > 3
      [] issue = "order_by_without_limit" ->
          LET has_order_by == re_search(<<WordB, Lit(<<"O","R","D","E","R">>), Plus("s"), Lit(<<"B","Y">>), WordB>>, query)
              has_limit == re_search(<<WordB, Lit(<<"L","I","M","I","T">>), WordB, Plus("s"), Plus("d")>>, query)
          IN has_order_by /\ ~ has_limit

\* the RuleBasedQueryOptimizer method of the copy in mcp_server_llm.py applied for an issue
mcp_transform(issue, query) ==
    CASE issue = "select_star" ->
          str_replace(query, <<"S","E","L","E","C","T"," ","*">>,
                      <<"S","E","L","E","C","T"," ","i","d",","," ","n","a","m","e",","," ","v","a","l","u","e",","," ","t","i","m","e","s","t","a","m","p"," ","/","*"," ","s","p","e","c","i","f","y"," ","o","n","l","y"," ","n","e","e","d","e","d"," ","c","o","l","u","m","n","s"," ","*","/">>)
      [] issue = "multiple_with_clauses" ->
          <<"-","-"," ","R","e","c","o","m","m","e","n","d","a","t","i","o","n",":"," ","C","o","n","s","i","d","e","r"," ","c","o","m","b","i","n","i","n","g"," ","r","e","l","a","t","e","d"," ","W","I","T","H"," ","c","l","a","u","s","e","s","\n">>
          \o query
      [] issue = "subquery_with_aggregation" ->
          <<"-","-"," ","R","e","c","o","m","m","e","n","d","a","t","i","o","n",":"," ","C","o","n","s","i","d","e","r"," ","u","s","i","n","g"," ","J","O","I","N"," ","w","i","t","h"," ","p","r","e","-","a","g","g","r","e","g","a","t","e","d"," ","t","a","b","l","e","s"," ","i","n","s","t","e","a","d"," ","o","f"," ","s","u","b","q","u","e","r","i","e","s","\n">>
          \o query
      [] issue = "subquery_with_distinct" ->
          <<"-","-"," ","R","e","c","o","m","m","e","n","d","a","t","i","o","n",":"," ","C","o","n","s","i","d","e","r"," ","u","s","i","n","g"," ","E","X","I","S","T","S"," ","o","r"," ","G","R","O","U","P"," ","B","Y"," ","i","n","s","t","e","a","d"," ","o","f"," ","D","I","S","T","I","N","C","T"," ","i","n"," ","s","u","b","q","u","e","r","i","e","s","\n">>
          \o query
      [] issue = "order_by_without_limit" ->
          IF str_in(<<"O","R","D","E","R"," ","B","Y">>, UpperStr(query)) /\ ~ str_in(<<"L","I","M","I","T">>, UpperStr(query))
          THEN query \o <<"\n","L","I","M","I","T"," ","1","0","0","0"," ","/","*"," ","A","d","d","e","d"," ","l","i","m","i","t"," ","t","o"," ","i","m","p","r","o","v","e"," ","p","e","r","f","o","r","m","a","n","c","e"," ","*","/">>
          ELSE query

\* ------------------------- BigQueryAnalysisModel (mcp_server_llm.py)
\* the rule_analysis dict of BigQueryAnalysisModel.analyze_query
mcp_rule_analysis(query) ==
    [select_star |-> mcp_predicate("select_star", query),
     multiple_with_clauses |-> mcp_predicate("multiple_with_clauses", query),
     subquery_with_aggregation |-> mcp_predicate("subquery_with_aggregation", query),
     subquery_with_distinct |-> mcp_predicate("subquery_with_distinct", query),
     too_many_joins |-> mcp_predicate("too_many_joins", query),
     order_by_without_limit |-> mcp_predicate("order_by_without_limit", query)]

\* the if/elif chain of BigQueryAnalysisModel.analyze_query
mcp_Explanation(issue) ==
    CASE issue = "select_star" -> "Using SELECT * retrieves unnecessary columns, increasing I/O and network load."
      [] issue = "multiple_with_clauses" -> "Too many WITH clauses can make query optimization difficult."
      [] issue = "subquery_with_aggregation" -> "Subqueries with aggregation can be inefficient - consider pre-aggregation."
      [] issue = "subquery_with_distinct" -> "DISTINCT in subqueries can be expensive - consider alternatives."
      [] issue = "too_many_joins" -> "Having many joins can lead to performance issues - consider denormalizing."
      [] issue = "order_by_without_limit" -> "ORDER BY without LIMIT sorts the entire result set, which is costly."

\* the rule-based part of BigQueryAnalysisModel.analyze_query
mcp_rule_based_analysis(query) ==
    LET ra == mcp_rule_analysis(query)
    IN [analysis |-> ra,
        explanations |-> [issue \in {i \in DOMAIN ra : ra[i]} |-> mcp_Explanation(issue)],
        issues_found |-> AnyValue(ra)]

\* the rule-based part of BigQueryAnalysisModel.optimize_query with the
\* distinct advice applied before the aggregation advice
mcp_rule_based_optimize_distinct_first(query, a) ==
    LET q1 == IF Get(a, "select_star") THEN mcp_transform("select_star", query) ELSE query
        q2 == IF Get(a, "multiple_with_clauses") THEN mcp_transform("multiple_with_clauses", q1) ELSE q1
        q3 == IF Get(a, "subquery_with_distinct") THEN mcp_transform("subquery_with_distinct", q2) ELSE q2
        q4 == IF Get(a, "subquery_with_aggregation") THEN mcp_transform("subquery_with_aggregation", q3) ELSE q3
        q5 == IF Get(a, "order_by_without_limit") THEN mcp_transform("order_by_without_limit", q4) ELSE q4
    IN q5

\* the rule-based part of BigQueryAnalysisModel.optimize_query
mcp_rule_based_optimize(query, a) ==
    LET q1 == IF Get(a, "select_star") THEN mcp_transform("select_star", query) ELSE query
        q2 == IF Get(a, "multiple_with_clauses") THEN mcp_transform("multiple_with_clauses", q1) ELSE q1
        q3 == IF Get(a, "subquery_with_aggregation") THEN mcp_transform("subquery_with_aggregation", q2) ELSE q2
        q4 == IF Get(a, "subquery_with_distinct") THEN mcp_transform("subquery_with_distinct", q3) ELSE q3
        q5 == IF Get(a, "order_by_without_limit") THEN mcp_transform("order_by_without_limit", q4) ELSE q4
    IN q5

\* the try block of BigQueryAnalysisModel.analyze_query raises: the delegate
\* returned a result whose "analysis" entry has no values()
mcp_analyze_try_raises(llm_analysis) == ~ llm_analysis.analysis_is_dict

\* LLMQueryAnalyzer.optimize_query raises: json.dumps(analysis) is evaluated
\* before its try block and fails on an analysis that is not serializable
llm_optimize_raises(an) == ~ an.serializable

\* the except handler re-raising whatever the configuration says
mcp_reraises_always(fallback_) == TRUE

\* the except handler of both methods: "if not fallback_to_rule_based: raise"
mcp_reraises(fallback_) == ~ fallback_

\* BigQueryAnalysisModel.analyze_query raises
mcp_analyze_raises(llm, fallback_, llm_analysis) ==
    llm /\ mcp_analyze_try_raises(llm_analysis) /\ mcp_reraises(fallback_)

\* BigQueryAnalysisModel.analyze_query returns
mcp_analyze_query(query, llm, llm_analysis) ==
    IF llm /\ ~ mcp_analyze_try_raises(llm_analysis)
    THEN [analysis |-> llm_analysis.analysis,
          explanations |-> llm_analysis.explanations,
          issues_found |-> AnyValue(llm_analysis.analysis)]
    ELSE mcp_rule_based_analysis(query)

\* BigQueryAnalysisModel.optimize_query raises
mcp_optimize_raises(llm, fallback_, an) ==
    llm /\ llm_optimize_raises(an) /\ mcp_reraises(fallback_)

\* BigQueryAnalysisModel.optimize_query returns
mcp_optimize_query(query, an, llm, outcome, text) ==
    IF llm /\ ~ llm_optimize_raises(an)
    THEN llm_optimize_query(query, an.analysis, outcome, text)
    ELSE mcp_rule_based_optimize(query, an.analysis)

\* Query texts handed to BigQueryAnalysisModel
McpFragments ==
    {<<"S","E","L","E","C","T"," ","*"," ","F","R","O","M"," ","t">>,
     <<"s","e","l","e","c","t"," "," ","*","\n","f","r","o","m"," ","t">>,
     <<"S","E","L","E","C","T"," ","*"," ","F","R","O","M"," ","t"," ","O","R","D","E","R"," ","B","Y"," ","x">>,
     <<" ","J","O","I","N"," ","a"," ","J","O","I","N"," ","b"," ","J","O","I","N"," ","c"," ","J","O","I","N"," ","d">>,
     <<" ","J","O","I","N"," ","a"," ","J","O","I","N"," ","b">>,
     <<" ","O","R","D","E","R"," ","B","Y"," ","x">>,
     <<" ","O","R","D","E","R"," ","B","Y"," ","x"," ","L","I","M","I","T"," ","1","0">>,
     <<" ","(","S","E","L","E","C","T"," ","C","O","U","N","T","(","x",")"," ","F","R","O","M"," ","u",")"," ","(","S","E","L","E","C","T"," ","D","I","S","T","I","N","C","T"," ","x"," ","F","R","O","M"," ","u",")">>,
     <<" ","(","S","E","L","E","C","T"," ","D","I","S","T","I","N","C","T"," ","x"," ","F","R","O","M"," ","u",")">>,
     <<" ","W","I","T","H"," ","p"," ","W","I","T","H"," ","q"," ","W","I","T","H"," ","r"," ","W","I","T","H"," ","s">>}

McpQueries == Texts(McpFragments, MaxMcpFrags)

\* ------------------------------------------------------------- behaviour
\* After module import: the delegate exists when an API key is configured
\* (app.py:115-123); no tool has been called.
Init ==
    /\ query_text \in Queries
    /\ llm_analyzer \in BOOLEAN
    /\ pc = "idle"
    /\ analysis_path = "none"
    /\ llm_outcome = "none"
    /\ analysis = NoAnalysis
    /\ optimized_query = <<>>
    /\ ApiUnused
    /\ threads = <<>>
    /\ WebIdle
    /\ fallback_to_rule_based = TRUE

\* analyze_query(query_text) is called; the delegate, if there is one, ends
\* in one of its outcomes
AnalyzeQuery ==
    /\ pc = "idle"
    /\ \E outcome \in (IF llm_analyzer THEN AnalyzeOutcomes ELSE {"none"}) :
       \E answer \in (IF outcome = "ok" THEN LLMAnswers ELSE {NoAnswer}) :
         /\ analysis' = analyze_query(query_text, llm_analyzer, outcome, answer)
         /\ llm_outcome' = outcome
         /\ analysis_path' = IF LLMBranchReturns(llm_analyzer, llm_analyze_query(query_text, outcome, answer))
                    THEN "llm" ELSE "rule"
    /\ pc' = "analyzed"
    /\ UNCHANGED <<query_text, llm_analyzer, optimized_query, api_vars, threads, web_vars, fallback_to_rule_based>>

\* optimize_query(query_text, analysis) is called with the analysis returned
\* before (app.py:494-498)
OptimizeQuery ==
    /\ pc = "analyzed"
    /\ \E outcome \in (IF llm_analyzer THEN OptimizeOutcomes ELSE {"none"}) :
       \E text \in (IF outcome = "ok" THEN LLMTexts ELSE {<<>>}) :
         /\ optimized_query' = optimize_query(query_text, analysis, llm_analyzer, outcome, text)
         /\ llm_outcome' = outcome
    /\ pc' = "optimized"
    /\ UNCHANGED <<query_text, llm_analyzer, analysis, analysis_path, api_vars, threads, web_vars, fallback_to_rule_based>>

Next == AnalyzeQuery \/ OptimizeQuery

Spec == Init /\ [][Next]_vars

\* Optimizer runs: no API key is configured, so the delegate is absent
InitOptimize ==
    /\ query_text \in OptQueries
    /\ llm_analyzer = FALSE
    /\ pc = "idle"
    /\ analysis_path = "none"
    /\ llm_outcome = "none"
    /\ analysis = NoAnalysis
    /\ optimized_query = <<>>
    /\ ApiUnused
    /\ threads = <<>>
    /\ WebIdle
    /\ fallback_to_rule_based = TRUE

\* the optimize_query tool is called with any analysis mapping
OptimizeTool ==
    /\ pc = "idle"
    /\ \E d \in Diagnoses :
         /\ analysis' = [analysis |-> d]
         /\ optimized_query' = optimize_query(query_text, [analysis |-> d], llm_analyzer, "none", <<>>)
    /\ llm_outcome' = "none"
    /\ pc' = "optimized"
    /\ UNCHANGED <<query_text, llm_analyzer, analysis_path, api_vars, threads, web_vars, fallback_to_rule_based>>

NextOptimize == OptimizeTool

SpecOptimize == InitOptimize /\ [][NextOptimize]_vars

\* Runs of llm/analyzer.LLMQueryAnalyzer.analyze_query: the analyzer was
\* built with some max_retries and analyze_query has entered
\* _make_api_request
InitApi ==
    /\ query_text \in ApiQueries
    /\ llm_analyzer = TRUE
    /\ pc = "idle"
    /\ analysis_path = "none"
    /\ llm_outcome = "none"
    /\ analysis = NoAnalysis
    /\ optimized_query = <<>>
    /\ max_retries \in 0..MaxRetriesBound
    /\ attempt = 0
    /\ api_pc = "loop"
    /\ posts = 0
    /\ sleeps = 0
    /\ response = NoResponse
    /\ threads = <<>>
    /\ WebIdle
    /\ fallback_to_rule_based = TRUE

\* one iteration of the for loop: the POST and what is decided on its result
Post ==
    /\ api_pc = "loop"
    /\ attempt < max_retries
    /\ \E r \in Responses :
       \E wrapped \in (IF ~ r.raised /\ r.status = StatusOK /\ ~ r.json THEN BOOLEAN ELSE {TRUE}) :
         LET outcome == attempt_outcome(r, wrapped, attempt, max_retries)
         IN /\ response' = r
            /\ api_pc' = IF outcome = "next_attempt" THEN "loop" ELSE outcome
            /\ attempt' = IF outcome = "next_attempt" THEN attempt + 1 ELSE attempt
    /\ posts' = posts + 1
    /\ UNCHANGED <<query_text, llm_analyzer, pc, analysis_path, llm_outcome, analysis,
                   optimized_query, max_retries, sleeps, threads, web_vars,
                   fallback_to_rule_based>>

\* time.sleep(delay); continue
Sleep ==
    /\ api_pc = "sleeping"
    /\ sleeps' = sleeps + 1
    /\ attempt' = attempt + 1
    /\ api_pc' = "loop"
    /\ UNCHANGED <<query_text, llm_analyzer, pc, analysis_path, llm_outcome, analysis,
                   optimized_query, max_retries, posts, response, threads, web_vars,
                   fallback_to_rule_based>>

\* the loop is over: raise Exception("API request failed after N attempts")
LoopExhausted ==
    /\ api_pc = "loop"
    /\ attempt >= max_retries
    /\ api_pc' = "raised_generic"
    /\ UNCHANGED <<query_text, llm_analyzer, pc, analysis_path, llm_outcome, analysis,
                   optimized_query, max_retries, attempt, posts, sleeps, response, threads,
                   web_vars, fallback_to_rule_based>>

ApiTerminated == api_pc \in {"returned", "raised_request_error", "raised_generic"}

\* what analyze_query makes of the end of the request
OutcomesAfterRequest ==
    IF api_pc = "returned" THEN {"ok", "no_content", "no_json", "no_analysis_key"}
    ELSE IF response.raised \/ posts = 0 THEN {"network_error"}
    ELSE {"non200"}

\* the rest of analyze_query once _make_api_request has returned or raised
AnalyzeAfterRequest ==
    /\ pc = "idle"
    /\ ApiTerminated
    /\ \E outcome \in OutcomesAfterRequest :
       \E answer \in (IF outcome = "ok" THEN LLMAnswers ELSE {NoAnswer}) :
         /\ analysis' = llm_analyze_query(query_text, outcome, answer)
         /\ llm_outcome' = outcome
    /\ analysis_path' = "llm"
    /\ pc' = "analyzed"
    /\ UNCHANGED <<query_text, llm_analyzer, optimized_query, api_vars, threads, web_vars, fallback_to_rule_based>>

NextApi == Post \/ Sleep \/ LoopExhausted \/ AnalyzeAfterRequest

SpecApi == InitApi /\ [][NextApi]_vars

\* a step of _make_api_request
RequestStep == Post \/ Sleep \/ LoopExhausted

\* requests.post returns within its timeout (timeout=30) and time.sleep
\* returns: a request in progress takes its next step
SpecApiFair == SpecApi /\ WF_vars(RequestStep)

\* ------------------------------------------------ web front end (app.py)
\* query texts submitted with the forms; an empty field is rejected by
\* Form(...) before the handler runs
WebQueries ==
    {SelectStarText \o <<" ","F","R","O","M"," ","t">>,
     <<"S","E","L","E","C","T"," ","a">> \o <<" ">> \o kwORDER_BY \o <<" ","a">>}

\* outcomes of the delegate in the runs of the front end
WebAnalyzeOutcomes == {"ok", "network_error"}
WebOptimizeOutcomes == {"ok", "network_error"}

\* request.session.get(key) is truthy
session_has(s, key) == key \in DOMAIN s /\ s[key] # <<>>

\* the optimization dict handed to optimize.html
optimization_page(query, an, optimized) ==
    [kind |-> "optimization",
     original_query |-> query,
     analysis |-> an.analysis,
     explanations |-> an.explanations,
     optimized_query |-> optimized]

EmptyPage == [kind |-> "empty"]

InitWeb ==
    /\ query_text = <<>>
    /\ llm_analyzer \in BOOLEAN
    /\ pc = "idle"
    /\ analysis_path = "none"
    /\ llm_outcome = "none"
    /\ analysis = NoAnalysis
    /\ optimized_query = <<>>
    /\ ApiUnused
    /\ threads = <<>>
    /\ WebIdle
    /\ fallback_to_rule_based = TRUE

\* the variables the front end leaves alone
not_web_vars ==
    <<query_text, llm_analyzer, pc, analysis_path, llm_outcome, analysis, optimized_query,
      api_vars, threads, fallback_to_rule_based>>

\* the get_slow_queries tool is called
ToolSlowQueries ==
    /\ \E min_runtime \in MinRuntimes, user \in Users :
         /\ request' = [kind |-> "get_slow_queries", min_runtime |-> min_runtime, user |-> user]
         /\ rendered' = [kind |-> "queries",
                         queries |-> get_slow_queries(store, min_runtime, user)]
    /\ UNCHANGED <<store, session, awaiting, not_web_vars>>

\* the get_query_by_id tool is called
ToolQueryById ==
    /\ \E query_id \in QueryIds :
         /\ request' = [kind |-> "get_query_by_id", query_id |-> query_id]
         /\ rendered' = [kind |-> "query", result |-> get_query_by_id(store, query_id)]
    /\ UNCHANGED <<store, session, awaiting, not_web_vars>>

\* what analyze_query returns for a request of the front end
WebAnalyses(query) ==
    {analyze_query(query, llm_analyzer, outcome, answer) :
        outcome \in (IF llm_analyzer THEN WebAnalyzeOutcomes ELSE {"none"}),
        answer \in LLMAnswers}

\* what optimize_query returns for a request of the front end
WebOptimizations(query, an) ==
    {optimize_query(query, an, llm_analyzer, outcome, text) :
        outcome \in (IF llm_analyzer THEN WebOptimizeOutcomes ELSE {"none"}),
        text \in LLMTexts}

\* POST /analyze
PostAnalyze ==
    /\ \E query \in WebQueries : \E an \in WebAnalyses(query) :
         /\ request' = [kind |-> "POST /analyze", query_text |-> query]
         /\ session' = [last_query |-> query, last_analysis |-> an]
         /\ awaiting' = Some([query |-> query, analysis |-> an])
         /\ rendered' = [kind |-> "analysis", analysis |-> an, query_text |-> query]
    /\ UNCHANGED <<store, not_web_vars>>

\* GET /analyze, query_id "" standing for no query_id
GetAnalyze ==
    /\ \E query_id \in PageQueryIds :
         LET query == get_query_by_id(store, query_id)
         IN /\ request' = [kind |-> "GET /analyze", query_id |-> query_id]
            /\ IF query_id # "" /\ query.found
               THEN \E an \in WebAnalyses(query.query.query_text) :
                      /\ session' = [last_query |-> query.query.query_text, last_analysis |-> an]
                      /\ awaiting' = Some([query |-> query.query.query_text, analysis |-> an])
                      /\ rendered' = [kind |-> "analysis", analysis |-> an,
                                      query_text |-> query.query.query_text]
               ELSE /\ rendered' = EmptyPage
                    /\ UNCHANGED <<session, awaiting>>
    /\ UNCHANGED <<store, not_web_vars>>

\* GET /optimize, query_id "" standing for no query_id
GetOptimize ==
    /\ \E query_id \in PageQueryIds :
         LET query == get_query_by_id(store, query_id)
         IN /\ request' = [kind |-> "GET /optimize", query_id |-> query_id]
            /\ awaiting' = IF query_id = "" THEN None ELSE awaiting
            /\ IF query_id # "" /\ query.found
               THEN \E an \in WebAnalyses(query.query.query_text) :
                    \E optimized \in WebOptimizations(query.query.query_text, an) :
                      /\ rendered' = optimization_page(query.query.query_text, an, optimized)
                      /\ UNCHANGED session
               ELSE IF session_has(session, "last_query") /\ session_has(session, "last_analysis")
               THEN \E optimized \in WebOptimizations(session.last_query, session.last_analysis) :
                      /\ rendered' = optimization_page(session.last_query, session.last_analysis,
                                                       optimized)
                      /\ session' = <<>>
               ELSE /\ rendered' = EmptyPage
                    /\ UNCHANGED session
    /\ UNCHANGED <<store, not_web_vars>>

\* POST /optimize
PostOptimize ==
    /\ \E query \in WebQueries : \E an \in WebAnalyses(query) :
       \E optimized \in WebOptimizations(query, an) :
         /\ request' = [kind |-> "POST /optimize", query_text |-> query]
         /\ rendered' = optimization_page(query, an, optimized)
    /\ UNCHANGED <<store, session, awaiting, not_web_vars>>

NextWeb ==
    ToolSlowQueries \/ ToolQueryById \/ PostAnalyze \/ GetAnalyze \/ GetOptimize \/ PostOptimize

SpecWeb == InitWeb /\ [][NextWeb]_vars

\* ------------------------------- BigQueryAnalysisModel (mcp_server_llm.py)
\* After BigQueryAnalysisModel(llm_config): the delegate is None when its
\* construction raised (no API key), and the configuration carries the flag.
InitMcp ==
    /\ query_text \in McpQueries
    /\ llm_analyzer \in BOOLEAN
    /\ fallback_to_rule_based \in BOOLEAN
    /\ pc = "idle"
    /\ analysis_path = "none"
    /\ llm_outcome = "none"
    /\ analysis = NoAnalysis
    /\ optimized_query = <<>>
    /\ ApiUnused
    /\ threads = <<>>
    /\ WebIdle

\* model.analyze_query(query_text); llm_outcome records what the try block
\* did, analysis_path the branch that produced the result
McpAnalyze ==
    /\ pc = "idle"
    /\ \E outcome \in (IF llm_analyzer THEN AnalyzeOutcomes ELSE {"none"}) :
       \E answer \in (IF outcome = "ok" THEN LLMAnswers ELSE {NoAnswer}) :
         LET llm_analysis == llm_analyze_query(query_text, outcome, answer)
         IN /\ llm_outcome' = IF ~ llm_analyzer THEN "none"
                              ELSE IF mcp_analyze_try_raises(llm_analysis) THEN "raised"
                              ELSE "returned"
            /\ IF mcp_analyze_raises(llm_analyzer, fallback_to_rule_based, llm_analysis)
               THEN /\ pc' = "analyze_raised"
                    /\ analysis_path' = "none"
                    /\ UNCHANGED analysis
               ELSE /\ pc' = "analyzed"
                    /\ analysis_path' = IF llm_outcome' = "returned" THEN "llm" ELSE "rule"
                    /\ analysis' = mcp_analyze_query(query_text, llm_analyzer, llm_analysis)
    /\ UNCHANGED <<query_text, llm_analyzer, optimized_query, api_vars, threads, web_vars, fallback_to_rule_based>>

\* model.optimize_query(query_text, analysis) with the analysis returned
\* before; the caller may have added entries that json cannot serialize
McpOptimize ==
    /\ pc = "analyzed"
    /\ \E serializable \in BOOLEAN :
       \E outcome \in (IF llm_analyzer /\ serializable THEN OptimizeOutcomes ELSE {"none"}) :
       \E text \in (IF outcome = "ok" THEN LLMTexts ELSE {<<>>}) :
         LET an == [analysis |-> analysis.analysis, serializable |-> serializable]
         IN /\ llm_outcome' = IF ~ llm_analyzer THEN "none"
                              ELSE IF llm_optimize_raises(an) THEN "raised"
                              ELSE "returned"
            /\ IF mcp_optimize_raises(llm_analyzer, fallback_to_rule_based, an)
               THEN /\ pc' = "optimize_raised"
                    /\ analysis_path' = "none"
                    /\ UNCHANGED optimized_query
               ELSE /\ pc' = "optimized"
                    /\ analysis_path' = IF llm_outcome' = "returned" THEN "llm" ELSE "rule"
                    /\ optimized_query' = mcp_optimize_query(query_text, an, llm_analyzer, outcome, text)
    /\ UNCHANGED <<query_text, llm_analyzer, analysis, api_vars, threads, web_vars, fallback_to_rule_based>>

NextMcp == McpAnalyze \/ McpOptimize

SpecMcp == InitMcp /\ [][NextMcp]_vars

\* ------------------------------ concurrent calls of the rule-based functions
\* number of threads calling at the same time
NumThreads == 2

Threads == 1..NumThreads

\* the order in which a detect call evaluates the predicates
DetectOrder ==
    <<"select_star", "multiple_with_clauses", "subquery_with_aggregation",
      "subquery_with_distinct", "too_many_joins", "order_by_without_limit">>

\* the order in which an optimize call tests the issues
OptimizeOrder ==
    <<"select_star", "multiple_with_clauses", "subquery_with_aggregation",
      "subquery_with_distinct", "order_by_without_limit">>

\* AntiPatterns.<issue>(query)
predicate(issue, query) ==
    CASE issue = "select_star" -> select_star(query)
      [] issue = "multiple_with_clauses" -> multiple_with_clauses(query)
      [] issue = "subquery_with_aggregation" -> subquery_with_aggregation(query)
      [] issue = "subquery_with_distinct" -> subquery_with_distinct(query)
      [] issue = "too_many_joins" -> too_many_joins(query)
      [] issue = "order_by_without_limit" -> order_by_without_limit(query)

\* the RuleBasedQueryOptimizer method applied for an issue
transform(issue, query) ==
    CASE issue = "select_star" -> optimize_select_star(query)
      [] issue = "multiple_with_clauses" -> optimize_with_clauses(query)
      [] issue = "subquery_with_aggregation" -> optimize_subquery_with_aggregation(query)
      [] issue = "subquery_with_distinct" -> optimize_distinct_in_subquery(query)
      [] issue = "order_by_without_limit" -> add_limit_to_order_by(query)

\* arguments of the concurrent calls
ThreadQueries ==
    {<<"S","E","L","E","C","T"," ","*"," ","F","R","O","M"," ","t"," ","O","R","D","E","R"," ","B","Y"," ","x">>,
     <<"S","E","L","E","C","T"," ","a"," ","F","R","O","M"," ","(","S","E","L","E","C","T"," ","D","I","S","T","I","N","C","T"," ","x"," ","F","R","O","M"," ","u",")">>}

ThreadDiagnoses == {AllTrue, [select_star |-> TRUE, subquery_with_distinct |-> FALSE]}

\* A call at its start.  local is the frame's working value: the dict being
\* built by a detect call, the text being rewritten by an optimize call.
ThreadCalls ==
    {[op |-> "detect", query |-> q, diagnosis |-> <<>>, step |-> 0, local |-> <<>>] :
        q \in ThreadQueries}
    \cup {[op |-> "optimize", query |-> q, diagnosis |-> d, step |-> 0, local |-> q] :
        q \in ThreadQueries, d \in ThreadDiagnoses}

\* detect call of thread t: the next predicate is evaluated and entered
detect_step(ts, t) ==
    LET th == ts[t]
        issue == DetectOrder[th.step + 1]
    IN [i \in DOMAIN th.local \cup {issue} |->
            IF i = issue THEN predicate(issue, th.query) ELSE th.local[i]]

\* optimize_step with the working text kept in one place for all threads
optimize_step_shared_text(ts, t) ==
    LET th == ts[t]
        issue == OptimizeOrder[th.step + 1]
        text == IF ts[1].op = "optimize" THEN ts[1].local ELSE th.local
    IN IF Get(th.diagnosis, issue) THEN transform(issue, text) ELSE text

\* optimize call of thread t: the next issue is tested and its transform
\* applied to the working text
optimize_step(ts, t) ==
    LET th == ts[t]
        issue == OptimizeOrder[th.step + 1]
    IN IF Get(th.diagnosis, issue) THEN transform(issue, th.local) ELSE th.local

\* the call of thread t has returned; local is its result
CallDone(th) ==
    th.step = (IF th.op = "detect" THEN Len(DetectOrder) ELSE Len(OptimizeOrder))

\* several threads have each entered one call
InitThreads ==
    /\ query_text = <<>>
    /\ llm_analyzer = FALSE
    /\ pc = "idle"
    /\ analysis_path = "none"
    /\ llm_outcome = "none"
    /\ analysis = NoAnalysis
    /\ optimized_query = <<>>
    /\ ApiUnused
    /\ threads \in [Threads -> ThreadCalls]
    /\ WebIdle
    /\ fallback_to_rule_based = TRUE

DetectStep ==
    /\ \E t \in Threads :
         /\ threads[t].op = "detect"
         /\ ~ CallDone(threads[t])
         /\ threads' = [threads EXCEPT ![t].local = detect_step(threads, t),
                                       ![t].step = @ + 1]
    /\ UNCHANGED <<query_text, llm_analyzer, pc, analysis_path, llm_outcome, analysis,
                   optimized_query, api_vars, web_vars, fallback_to_rule_based>>

OptimizeStep ==
    /\ \E t \in Threads :
         /\ threads[t].op = "optimize"
         /\ ~ CallDone(threads[t])
         /\ threads' = [threads EXCEPT ![t].local = optimize_step(threads, t),
                                       ![t].step = @ + 1]
    /\ UNCHANGED <<query_text, llm_analyzer, pc, analysis_path, llm_outcome, analysis,
                   optimized_query, api_vars, web_vars, fallback_to_rule_based>>

NextThreads == DetectStep \/ OptimizeStep

SpecThreads == InitThreads /\ [][NextThreads]_vars

\* ================================================================ claims
\* Vocabulary of the statements below: occurrences are given by the index of
\* their first character.
IsSpace(c) == c \in {" ", "\n", "\t"}
IsWordChar(c) == c \in Letters \cup Digits \cup {"_"}

\* the word w (upper case) stands at t[i .. i+Len(w)-1], in any letter case
WordAt(t, w, i) ==
    /\ i >= 1
    /\ i + Len(w) - 1 <= Len(t)
    /\ \A j \in 1..Len(w) : Upper(t[i + j - 1]) = w[j]

\* the string s stands at t[i .. i+Len(s)-1], character for character
ExactAt(t, s, i) ==
    /\ i >= 1
    /\ i + Len(s) - 1 <= Len(t)
    /\ \A j \in 1..Len(s) : t[i + j - 1] = s[j]

\* t[i .. j] is a non-empty run of whitespace
Gap(t, i, j) == i <= j /\ \A k \in i..j : IsSpace(t[k])

\* t[i .. j] is a possibly empty run of whitespace
OptGap(t, i, j) == \A k \in i..j : IsSpace(t[k])

\* no word character touches t[i .. i+n-1]
Standalone(t, i, n) ==
    /\ i = 1 \/ ~ IsWordChar(t[i - 1])
    /\ i + n - 1 = Len(t) \/ ~ IsWordChar(t[i + n])

\* the analysis came from the rule-based branch of analyze_query
RuleAnalysed == pc # "idle" /\ analysis_path = "rule"

\* the rule-based branch of optimize_query has run
RuleOptimized == pc = "optimized" /\ ~ llm_analyzer

\* C1: the rule-based analysis of any query text, the empty one included,
\* holds exactly the six issue names, each mapped to a boolean.
C1_SixBooleanKeys ==
    RuleAnalysed =>
        /\ DOMAIN analysis.analysis = Issues
        /\ \A i \in Issues : analysis.analysis[i] \in BOOLEAN

C1_EmptyQueryAnalysed == RuleAnalysed /\ query_text = <<>>

\* the delegate was called and failed
DelegateFailed == llm_analyzer /\ llm_outcome \notin {"ok", "none"}

\* C2: whenever the delegate fails, analyze_query returns the rule-based
\* diagnosis (the six regex predicates and their fixed explanations) and
\* optimize_query returns the output of the rule-based optimizer.
C2_FailureFallsBackToRules ==
    /\ (pc = "analyzed" /\ DelegateFailed) =>
          /\ analysis.analysis = rule_analysis(query_text)
          /\ \A i \in Issues : analysis.analysis[i] =>
                analysis.explanations[i] = Explanation(i)
    /\ (pc = "optimized" /\ DelegateFailed) =>
          optimized_query = rule_based_optimize(query_text, analysis.analysis)

\* occurrences of the exact string s in t
Occurrences(t, s) == {i \in 1..Len(t) : ExactAt(t, s, i)}

\* t with its first "SELECT *" replaced and the rest left as it is
FirstOccurrenceReplaced(t) ==
    IF Occurrences(t, SelectStarText) = {} THEN t
    ELSE LET i == SetMin(Occurrences(t, SelectStarText))
         IN SubSeq(t, 1, i - 1) \o SelectStarCols \o SubSeq(t, i + Len(SelectStarText), Len(t))

OnlyIssue(d, issue) == Get(d, issue) /\ \A i \in DOMAIN d : i # issue => ~ d[i]

\* C3 as stated: with select_star the only issue, the output is the query
\* with the first "SELECT *" replaced and every later one unchanged.
C3_OnlyFirstReplaced ==
    (RuleOptimized /\ OnlyIssue(analysis.analysis, "select_star")) =>
        optimized_query = FirstOccurrenceReplaced(query_text)

\* C3 amended: the select_star transform replaces every occurrence of the
\* literal "SELECT *": none is left in the output, and the output holds as
\* many placeholder column lists as the query held occurrences.
C3_EveryOccurrenceReplaced ==
    (RuleOptimized /\ Get(analysis.analysis, "select_star")) =>
        /\ Occurrences(optimized_query, SelectStarText) = {}
        /\ Cardinality(Occurrences(optimized_query, SelectStarCols))
             = Cardinality(Occurrences(query_text, SelectStarText))

C3_TwoOccurrencesOptimized ==
    /\ RuleOptimized
    /\ Get(analysis.analysis, "select_star")
    /\ Cardinality(Occurrences(query_text, SelectStarText)) = 2

\* C4: the output is the DISTINCT advice, the aggregation advice and the WITH
\* advice, in that order and each only if its issue is true, then the query
\* with the SELECT * substitution applied if select_star is true, then the
\* LIMIT clause if one was appended.
C4_AdviceInReverseOrder ==
    RuleOptimized =>
        LET a == analysis.analysis
            top == (IF Get(a, "subquery_with_distinct") THEN DistinctAdvice ELSE <<>>)
                   \o (IF Get(a, "subquery_with_aggregation") THEN AggregationAdvice ELSE <<>>)
                   \o (IF Get(a, "multiple_with_clauses") THEN WithAdvice ELSE <<>>)
            body == IF Get(a, "select_star") THEN optimize_select_star(query_text) ELSE query_text
        IN \/ optimized_query = top \o body
           \/ Get(a, "order_by_without_limit") /\ optimized_query = top \o body \o LimitSuffix

C4_AllTransformsApplied ==
    /\ RuleOptimized
    /\ \A i \in Issues \ {"too_many_joins"} : Get(analysis.analysis, i)
    /\ Occurrences(query_text, SelectStarText) # {}
    /\ Len(optimized_query) = Len(DistinctAdvice) + Len(AggregationAdvice) + Len(WithAdvice)
                              + Len(optimize_select_star(query_text)) + Len(LimitSuffix)

\* C5: with every issue false, optimize returns the query text unchanged.
C5_AllFalseIsIdentity ==
    (RuleOptimized /\ \A i \in DOMAIN analysis.analysis : ~ analysis.analysis[i]) =>
        optimized_query = query_text

C5_AllFalseOnSortedWildcard ==
    /\ RuleOptimized
    /\ analysis.analysis = AllFalse
    /\ Occurrences(query_text, SelectStarText) # {}
    /\ Occurrences(query_text, kwORDER_BY) # {}

\* t holds the word w in any letter case, anywhere
HoldsWord(t, w) == \E i \in 1..Len(t) : WordAt(t, w, i)

SortedQuery == <<"S","E","L","E","C","T"," ","x"," ","F","R","O","M"," ","t"," ","O","R","D","E","R"," ","B","Y"," ","x">>

\* C6: with order_by_without_limit the only issue, the output is the query
\* followed by the LIMIT 1000 suffix when the query holds ORDER BY and no
\* LIMIT (any letter case), and the query itself otherwise.
C6_LimitAppendedExactlyWhen ==
    (RuleOptimized /\ OnlyIssue(analysis.analysis, "order_by_without_limit")) =>
        optimized_query =
            IF HoldsWord(query_text, kwORDER_BY) /\ ~ HoldsWord(query_text, kwLIMIT)
            THEN query_text \o LimitSuffix
            ELSE query_text

C6_SortedQueryLimited ==
    /\ RuleOptimized
    /\ OnlyIssue(analysis.analysis, "order_by_without_limit")
    /\ query_text = SortedQuery
    /\ optimized_query = SortedQuery \o LimitSuffix

\* SELECT, whitespace, *, whitespace and then the word w
SelectStarThen(t, w) ==
    \E i \in 1..Len(t) :
        /\ WordAt(t, kwSELECT, i)
        /\ \E s \in (i + 7)..Len(t) :
              /\ t[s] = "*"
              /\ Gap(t, i + 6, s - 1)
              /\ \E f \in (s + 2)..Len(t) : WordAt(t, w, f) /\ Gap(t, s + 1, f - 1)

\* SELECT, whitespace, *, whitespace, EXCEPT, optional whitespace and (
SelectStarExcept(t) ==
    \E i \in 1..Len(t) :
        /\ WordAt(t, kwSELECT, i)
        /\ \E s \in (i + 7)..Len(t) :
              /\ t[s] = "*"
              /\ Gap(t, i + 6, s - 1)
              /\ \E f \in (s + 2)..Len(t) :
                    /\ WordAt(t, kwEXCEPT, f)
                    /\ Gap(t, s + 1, f - 1)
                    /\ \E p \in (f + 6)..Len(t) : t[p] = "(" /\ OptGap(t, f + 6, p - 1)

WildcardQuery == <<"S","E","L","E","C","T"," ","*"," ","F","R","O","M"," ","t">>
ExceptQuery == <<"S","E","L","E","C","T"," ","*"," ","E","X","C","E","P","T"," ","(","x",")"," ","F","R","O","M"," ","t">>

\* C7: select_star is true exactly when the text holds SELECT * FROM and
\* holds no SELECT * EXCEPT ( anywhere, in any letter case, the parts
\* separated by whitespace.
C7_SelectStarExactly ==
    RuleAnalysed =>
        /\ analysis.analysis.select_star
             = (SelectStarThen(query_text, kwFROM) /\ ~ SelectStarExcept(query_text))
        /\ query_text = WildcardQuery => analysis.analysis.select_star
        /\ query_text = ExceptQuery => ~ analysis.analysis.select_star

C7_BothFormsNotFlagged ==
    /\ RuleAnalysed
    /\ query_text = WildcardQuery \o ExceptQuery
    /\ ~ analysis.analysis.select_star

\* standalone occurrences of the word w in t
StandaloneWords(t, w) == {i \in 1..Len(t) : WordAt(t, w, i) /\ Standalone(t, i, Len(w))}

\* C8: too_many_joins is true exactly when the standalone word JOIN occurs
\* more than three times in the raw text, in any letter case.
C8_MoreThanThreeJoins ==
    RuleAnalysed =>
        analysis.analysis.too_many_joins
            = (Cardinality(StandaloneWords(query_text, kwJOIN)) > 3)

C8_FourJoinsFlagged ==
    /\ RuleAnalysed
    /\ Cardinality(StandaloneWords(query_text, kwJOIN)) = 4
    /\ analysis.analysis.too_many_joins

\* the words ORDER and BY, whitespace between them, no word character around
HasOrderBy(t) ==
    \E i \in 1..Len(t) :
        /\ WordAt(t, kwORDER, i)
        /\ i = 1 \/ ~ IsWordChar(t[i - 1])
        /\ \E b \in (i + 6)..Len(t) :
              /\ WordAt(t, kwBY, b)
              /\ Gap(t, i + 5, b - 1)
              /\ b + 1 = Len(t) \/ ~ IsWordChar(t[b + 2])

\* the standalone word LIMIT, whitespace and a digit
HasLimitNumeral(t) ==
    \E i \in StandaloneWords(t, kwLIMIT) :
        \E n \in (i + 6)..Len(t) : t[n] \in Digits /\ Gap(t, i + 5, n - 1)

OrderByQuery == <<" ","O","R","D","E","R"," ","B","Y"," ","x">>
LimitTen == <<" ","L","I","M","I","T"," ","1","0">>

\* C9: order_by_without_limit is true exactly when the text holds ORDER BY
\* and no word LIMIT followed by a numeral, in any letter case.
C9_OrderByWithoutLimitExactly ==
    RuleAnalysed =>
        /\ analysis.analysis.order_by_without_limit
             = (HasOrderBy(query_text) /\ ~ HasLimitNumeral(query_text))
        /\ query_text = OrderByQuery => analysis.analysis.order_by_without_limit

C9_LimitTenNotFlagged ==
    /\ RuleAnalysed
    /\ query_text = OrderByQuery \o LimitTen
    /\ ~ analysis.analysis.order_by_without_limit

\* (, optional whitespace, SELECT, later an aggregate name, later FROM, later
\* ), whatever the characters in between, line breaks included
AggregateSpan(t) ==
    \E p \in 1..Len(t) :
        /\ t[p] = "("
        /\ \E s \in (p + 1)..Len(t) :
              /\ WordAt(t, kwSELECT, s)
              /\ OptGap(t, p + 1, s - 1)
              /\ \E g \in 1..Len(Aggregates) : \E c \in (s + 6)..Len(t) :
                    /\ WordAt(t, Aggregates[g], c)
                    /\ \E f \in (c + Len(Aggregates[g]))..Len(t) :
                          /\ WordAt(t, kwFROM, f)
                          /\ \E e \in (f + 4)..Len(t) : t[e] = ")"

FixedExplanation ==
    [select_star |-> "Using SELECT * retrieves unnecessary columns, increasing I/O and network load.",
     multiple_with_clauses |-> "Too many WITH clauses can make query optimization difficult.",
     subquery_with_aggregation |-> "Subqueries with aggregation can be inefficient - consider pre-aggregation.",
     subquery_with_distinct |-> "DISTINCT in subqueries can be expensive - consider alternatives.",
     too_many_joins |-> "Having many joins can lead to performance issues - consider denormalizing.",
     order_by_without_limit |-> "ORDER BY without LIMIT sorts the entire result set, which is costly."]

\* C11: in every rule-based result the explanations hold, for each issue that
\* is true, its fixed non-empty explanation, and for each issue that is false
\* no entry or an empty one.
C11_ExplanationsMatchIssues ==
    RuleAnalysed =>
        \A i \in Issues :
            IF analysis.analysis[i]
            THEN /\ i \in DOMAIN analysis.explanations
                 /\ analysis.explanations[i] = FixedExplanation[i]
                 /\ analysis.explanations[i] # ""
            ELSE i \notin DOMAIN analysis.explanations \/ analysis.explanations[i] = ""

C11_SomeTrueSomeFalse ==
    /\ RuleAnalysed
    /\ analysis.analysis.select_star
    /\ analysis.analysis.order_by_without_limit
    /\ ~ analysis.analysis.too_many_joins
    /\ DOMAIN analysis.explanations = {"select_star", "order_by_without_limit"}

\* d without its too_many_joins entry
WithoutJoins(d) == [i \in DOMAIN d \ {"too_many_joins"} |-> d[i]]

\* C12: the output of optimize does not depend on too_many_joins: it is the
\* output for the same analysis with the too_many_joins entry taken away, so
\* analyses that differ only there (true, false, absent) give the same string.
C12_JoinsFlagIgnored ==
    RuleOptimized =>
        optimized_query = rule_based_optimize(query_text, WithoutJoins(analysis.analysis))

C12_JoinsTrueOptimized ==
    /\ RuleOptimized
    /\ DOMAIN analysis.analysis = Issues
    /\ analysis.analysis.too_many_joins
    /\ analysis.analysis.subquery_with_distinct
    /\ ~ analysis.analysis.select_star
    /\ query_text # <<>>

\* d with every missing issue entered as false
MissingAsFalse(d) == [i \in Issues |-> i \in DOMAIN d /\ d[i]]

\* C13: optimize is total over analyses holding any subset of the six keys:
\* it returns a text, the one it returns when the missing keys are false.
C13_MissingKeysAreFalse ==
    RuleOptimized =>
        /\ optimized_query = rule_based_optimize(query_text, MissingAsFalse(analysis.analysis))
        /\ DOMAIN optimized_query = 1..Len(optimized_query)

C13_OnlyOneKeyGiven ==
    /\ RuleOptimized
    /\ DOMAIN analysis.analysis = {"subquery_with_aggregation"}
    /\ analysis.analysis.subquery_with_aggregation
    /\ Occurrences(query_text, SelectStarText) # {}
    /\ Occurrences(query_text, kwORDER_BY) # {}

AdviceIssues == {"multiple_with_clauses", "subquery_with_aggregation", "subquery_with_distinct"}

\* C14: with one of the three advice issues the only one true, the output is
\* one comment line ending in a line break, followed by the input text.
C14_OneAdviceLineThenInput ==
    (RuleOptimized /\ \E x \in AdviceIssues : OnlyIssue(analysis.analysis, x)) =>
        LET n == Len(optimized_query) - Len(query_text)
        IN /\ n > 2
           /\ SubSeq(optimized_query, n + 1, Len(optimized_query)) = query_text
           /\ optimized_query[1] = "-" /\ optimized_query[2] = "-"
           /\ optimized_query[n] = "\n"
           /\ \A i \in 1..(n - 1) : optimized_query[i] # "\n"

C14_WithAdviceOnQuery ==
    /\ RuleOptimized
    /\ OnlyIssue(analysis.analysis, "multiple_with_clauses")
    /\ Len(query_text) > 0
    /\ Len(optimized_query) = Len(WithAdvice) + Len(query_text)

\* the last POST of the call failed: it raised, or its response is not a
\* status-200 response with a JSON body
LastPostFailed == posts > 0 /\ (response.raised \/ response.status # 200 \/ ~ response.json)

C17_Safety ==
    /\ posts <= max_retries
    /\ api_pc = "returned" => (posts > 0 /\ ~ response.raised /\ response.status = 200)
    /\ api_pc = "raised_request_error" => LastPostFailed
    /\ api_pc = "raised_generic" => posts = max_retries
    /\ (max_retries = 0 /\ ApiTerminated) => (api_pc = "raised_generic" /\ posts = 0)

\* C17: _make_api_request terminates after at most max_retries POSTs; it
\* returns only on a status-200 response, otherwise it raises the error of the
\* last request or the generic exception, the generic one when max_retries is
\* 0; it never returns on another status.
C17_TerminatesWithinMaxRetries == [] C17_Safety /\ <> ApiTerminated

C17_ReturnedOnThirdAttempt ==
    /\ api_pc = "returned"
    /\ max_retries = 3
    /\ posts = 3
    /\ response.status = 200

\* C18: a response with an error status other than 529 makes the call raise
\* for that response at once: no sleep and no further request follow it.
C18_OtherErrorsRaiseAtOnce ==
    (posts > 0 /\ ~ response.raised /\ response.status >= 400 /\ response.status # 529)
        => api_pc = "raised_request_error"

C19_Safety ==
    /\ sleeps <= posts
    /\ sleeps <= (IF max_retries > 0 THEN max_retries - 1 ELSE 0)
    /\ api_pc = "sleeping" => posts < max_retries
    /\ ApiTerminated => (sleeps = 0 \/ sleeps < posts)

\* C19: the call sleeps only between attempts: at most max_retries - 1 sleeps,
\* every sleep is followed by another POST, and the final attempt, whether it
\* ended in status 529 or in a request exception, is followed by no sleep.
C19_SleepsOnlyBetweenAttempts ==
    /\ [] C19_Safety
    /\ \A n \in 1..MaxRetriesBound :
          (api_pc = "sleeping" /\ posts = n) ~> (posts = n + 1)

C19_LastAttemptOverloaded ==
    /\ api_pc = "raised_request_error"
    /\ max_retries = 3
    /\ posts = 3
    /\ sleeps = 2
    /\ ~ response.raised
    /\ response.status = 529

\* the upper-case string w is a substring of t written in upper case
Contains(t, w) == \E i \in 1..Len(t) : WordAt(t, w, i)

\* more than three occurrences of w in t written in upper case
MoreThanThree(t, w) == Cardinality({i \in 1..Len(t) : WordAt(t, w, i)}) > 3

\* the substring heuristics of the failure result
SubstringHeuristic(t) ==
    [select_star |-> \E i \in 1..Len(t) : t[i] = "*",
     multiple_with_clauses |-> MoreThanThree(t, kwWITH),
     subquery_with_aggregation |-> \E f \in AggregateCalls : Contains(t, f),
     subquery_with_distinct |-> Contains(t, kwDISTINCT),
     too_many_joins |-> MoreThanThree(t, kwJOIN),
     order_by_without_limit |-> Contains(t, kwORDER_BY) /\ ~ Contains(t, kwLIMIT)]

\* C20: the delegate's analyze_query raises nothing and returns no None: on
\* every failure its result holds an analysis with the six issue keys, given by
\* the substring heuristics on the query text, and explanations with the six
\* keys, non-empty exactly for the issues found.
C20_FailureGivesHeuristics ==
    (pc = "analyzed" /\ DelegateFailed) =>
        /\ DOMAIN analysis.analysis = Issues
        /\ DOMAIN analysis.explanations = Issues
        /\ analysis.analysis = SubstringHeuristic(query_text)
        /\ \A i \in Issues : analysis.analysis[i] <=> analysis.explanations[i] # ""

C20_FailedWithManyJoins ==
    /\ pc = "analyzed"
    /\ DelegateFailed
    /\ llm_outcome = "no_analysis_key"
    /\ analysis.analysis.too_many_joins
    /\ ~ analysis.analysis.select_star
    /\ analysis.explanations.too_many_joins # ""
    /\ analysis.explanations.order_by_without_limit = ""

\* what the call of a thread returns when it runs alone
ResultAlone(th) ==
    IF th.op = "detect" THEN rule_analysis(th.query)
    ELSE rule_based_optimize(th.query, th.diagnosis)

C16_ResultsAsAlone ==
    \A t \in DOMAIN threads :
        CallDone(threads[t]) => threads[t].local = ResultAlone(threads[t])

C16_ArgumentsKept ==
    \A t \in DOMAIN threads :
        /\ threads'[t].op = threads[t].op
        /\ threads'[t].query = threads[t].query
        /\ threads'[t].diagnosis = threads[t].diagnosis

\* C16: under every interleaving of the steps of concurrent detect and
\* optimize calls, each call returns what it returns when run alone, and no
\* step changes the query text or the diagnosis a call was given.
C16_CallsDoNotInterfere == [] C16_ResultsAsAlone /\ [][C16_ArgumentsKept]_vars

C16_TwoOptimizeCallsDone ==
    /\ DOMAIN threads # {}
    /\ \A t \in DOMAIN threads : CallDone(threads[t])
    /\ threads[1].op = "optimize"
    /\ threads[2].op = "optimize"
    /\ threads[1].query # threads[2].query
    /\ threads[1].local # threads[1].query
    /\ threads[2].local # threads[2].query
    /\ threads[1].local # threads[2].local

\* positions of the stored records that are at least as slow as m and, when
\* a user is given, belong to that user
Matching(data, m, u) ==
    {i \in 1..Len(data) : data[i].runtime_ms >= m /\ (u.given => data[i].user = u.value)}

\* result lists the records of data at the positions I, in the order of data
InStoredOrder(result, data, I) ==
    /\ Len(result) = Cardinality(I)
    /\ \A i \in I : result[Cardinality({j \in I : j <= i})] = data[i]

\* C23: get_slow_queries returns exactly the stored records with runtime_ms at
\* least min_runtime and, when a user is given, with that user, in stored
\* order; get_query_by_id returns the record with the id if there is one and
\* None otherwise; the store stays as it was.
C23_ToolsAnswerFromStore ==
    /\ store = MOCK_QUERY_DATA
    /\ request.kind = "get_slow_queries" =>
          InStoredOrder(rendered.queries, MOCK_QUERY_DATA,
                        Matching(MOCK_QUERY_DATA, request.min_runtime, request.user))
    /\ request.kind = "get_query_by_id" =>
          IF \E i \in 1..Len(MOCK_QUERY_DATA) : MOCK_QUERY_DATA[i].query_id = request.query_id
          THEN /\ rendered.result.found
               /\ rendered.result.query.query_id = request.query_id
               /\ \E i \in 1..Len(MOCK_QUERY_DATA) : MOCK_QUERY_DATA[i] = rendered.result.query
          ELSE ~ rendered.result.found

C23_SlowQueriesOfOneUser ==
    /\ request.kind = "get_slow_queries"
    /\ request.min_runtime = 45000
    /\ request.user = Some("analyst2")
    /\ Len(rendered.queries) = 2
    /\ rendered.queries[1].query_id = "2"
    /\ rendered.queries[2].query_id = "5"

\* C21: a GET /optimize without query_id that follows an analyze request
\* optimizes the query and the analysis stored by the most recent one, without
\* analysing again, and empties the session; one that follows no analyze
\* request since the last such GET renders no optimization.
C21_NextOptimizeUsesStored ==
    [][(request'.kind = "GET /optimize" /\ request'.query_id = "") =>
          IF awaiting.given
          THEN /\ rendered'.kind = "optimization"
               /\ rendered'.original_query = awaiting.value.query
               /\ rendered'.analysis = awaiting.value.analysis.analysis
               /\ ~ llm_analyzer =>
                    rendered'.optimized_query =
                        rule_based_optimize(awaiting.value.query, awaiting.value.analysis.analysis)
               /\ session' = <<>>
          ELSE rendered'.kind = "empty"]_vars

\* the result the rule-based analysis gives for the query of the call
RuleResult ==
    LET r == rule_based_analysis(query_text)
    IN [analysis |-> r.analysis, explanations |-> r.explanations, issues_found |-> r.issues_found]

\* C22: In BigQueryAnalysisModel, when the delegate exists and the try block
\* of analyze_query or optimize_query raises, the call returns the rule-based
\* result if fallback_to_rule_based is true, and raises without any
\* rule-based result if it is false; without a delegate the rule-based path
\* is used whatever the flag says.
C22_FallbackFollowsFlag ==
    /\ pc \in {"analyze_raised", "optimize_raised"} =>
         llm_analyzer /\ llm_outcome = "raised" /\ ~ fallback_to_rule_based
    /\ pc = "analyze_raised" => analysis = NoAnalysis
    /\ pc = "optimize_raised" => optimized_query = <<>>
    /\ (pc \in {"analyzed", "optimized"} /\ llm_outcome = "raised") =>
         fallback_to_rule_based /\ analysis_path = "rule"
    /\ (pc \in {"analyzed", "optimized"} /\ ~ llm_analyzer) => analysis_path = "rule"
    /\ (pc = "analyzed" /\ analysis_path = "rule") => analysis = RuleResult
    /\ (pc = "optimized" /\ analysis_path = "rule") =>
         optimized_query = rule_based_optimize(query_text, analysis.analysis)

C22_RaisedWithoutFallback ==
    /\ pc = "optimize_raised"
    /\ llm_analyzer /\ ~ fallback_to_rule_based
    /\ analysis.issues_found

C22_FellBackAfterRaise ==
    /\ pc = "optimized" /\ llm_analyzer /\ llm_outcome = "raised"
    /\ fallback_to_rule_based
    /\ optimized_query # query_text

\* the diagnosis the detectors give for the optimized text
Rediagnosis == rule_analysis(optimized_query)

\* C24: The rule-based optimizer never introduces an anti-pattern: every
\* issue that is false in the rule-based diagnosis of the query is false in
\* the rule-based diagnosis of the text optimize_query returns for it.
C24_NoIssueIntroduced ==
    RuleOptimized =>
      \A issue \in Issues : ~ analysis.analysis[issue] => ~ Rediagnosis[issue]

\* C25: Whenever the detector flags select_star on a query, the rule-based
\* optimization with that diagnosis returns a text on which the detector no
\* longer flags select_star.
C25_SelectStarRewritten ==
    (RuleOptimized /\ analysis.analysis.select_star) => ~ Rediagnosis.select_star

\* C26: Whenever the detector flags order_by_without_limit on a query, the
\* rule-based optimization with that diagnosis returns a text on which the
\* detector no longer flags order_by_without_limit.
C26_OrderByLimited ==
    (RuleOptimized /\ analysis.analysis.order_by_without_limit) =>
      ~ Rediagnosis.order_by_without_limit

\* the transform of one of the three copies
TransformOf(copy, issue, q) ==
    CASE copy = "analizer" -> transform(issue, q)
      [] copy = "app" -> app_transform(issue, q)

\* the transforms of a copy applied for the first k issues of OptimizeOrder
\* that the diagnosis d marks
RECURSIVE AppliedInOrder(_, _, _, _)
AppliedInOrder(copy, k, d, q) ==
    IF k = 0 THEN q
    ELSE LET before == AppliedInOrder(copy, k - 1, d, q)
         IN IF Get(d, OptimizeOrder[k]) THEN TransformOf(copy, OptimizeOrder[k], before)
            ELSE before

\* the result of the fallback branch of app.analyze_query, from the copies of
\* the detectors in app.py
AppFallback(q) ==
    LET flagged == {i \in Issues : app_predicate(i, q)}
    IN [analysis |-> [i \in Issues |-> i \in flagged],
        explanations |-> [i \in flagged |-> Explanation(i)],
        issues_found |-> flagged # {}]

\* C27: The three copies of the rule-based path are equivalent: the detectors
\* of app.py and of the analizer module give the same diagnosis, the
\* rule-based analysis of BigQueryAnalysisModel equals the fallback result of
\* app.analyze_query in analysis, explanations and issues_found (true exactly
\* when some issue is true), and its rule-based optimization is the string
\* obtained by applying the transforms of app.py, and of the analizer module,
\* in the same order.
C27_CopiesAgree ==
    /\ \A i \in Issues : app_predicate(i, query_text) = predicate(i, query_text)
    /\ (pc = "analyzed" /\ analysis_path = "rule") =>
         /\ analysis = AppFallback(query_text)
         /\ analysis.issues_found <=> \E i \in Issues : analysis.analysis[i]
    /\ (pc = "optimized" /\ analysis_path = "rule") =>
         /\ optimized_query = AppliedInOrder("app", Len(OptimizeOrder), analysis.analysis, query_text)
         /\ optimized_query = AppliedInOrder("analizer", Len(OptimizeOrder), analysis.analysis, query_text)

C27_TwoAdviceLinesByRules ==
    /\ pc = "optimized" /\ analysis_path = "rule"
    /\ analysis.analysis.subquery_with_aggregation
    /\ analysis.analysis.subquery_with_distinct
    /\ ~ analysis.analysis.select_star
    /\ optimized_query # query_text

====
